---- MODULE Spec2Model ----
(***************************************************************************)
(* Model of the protocol-translation proxy (server/routers/proxy.py).      *)
(*                                                                         *)
(* The streaming transcoder _stream_anthropic_sse is an async generator:   *)
(* it reads OpenAI-style chunks from the backend stream and yields         *)
(* Anthropic-style SSE events.  The state below is the generator's local   *)
(* state, the chunks it has read so far and the events it has yielded.     *)
(*                                                                         *)
(* Strings that the code concatenates (tool-call argument fragments) are   *)
(* sequences of characters; strings it only passes through are strings.    *)
(* A value the code tests for truthiness (None or "") is "" or <<>>.       *)
(***************************************************************************)
EXTENDS Integers, Sequences, FiniteSets, TLC

VARIABLES
    pc,                      \* "start" | "stream" | "done": position of the generator
    consumed,                \* chunks read from oai_stream so far, in order
    events,                  \* SSE events yielded so far, in order
    output_tokens,           \* proxy.py:338
    block_index,             \* proxy.py:339
    current_block_type,      \* proxy.py:341  (None | "text" | "tool_use")
    tool_call_accumulators,  \* proxy.py:343  backend index -> accumulator
    uuid_count,              \* number of tool ids drawn from uuid4 so far
    exit_path                \* "" | "finish" | "fault" | "silent": how the call ended

\* The route handler proxy_messages (one request) has its own state; the
\* transcoder leaves it alone and the handler leaves the transcoder alone.
VARIABLES
    hpc,                     \* "off" | "entry" | "awaiting" | "replied": position of the handler
    env,                     \* what the handler finds around it: litellm, registry settings
    body,                    \* proxy.py:542  the parsed request body
    call_kwargs,             \* proxy.py:598  keyword arguments of litellm.acompletion
    backend_calls,           \* number of litellm.acompletion calls made
    outcome,                 \* what litellm.acompletion did: the response or the fault
    reply                    \* the HTTP reply of the handler

\* The route handler proxy_count_tokens serves each request in one step.
VARIABLES
    count_log                \* the count_tokens requests served: body and estimate

\* Several streaming calls served at once, each by its own generator.
VARIABLES
    generators               \* call name -> the generator of that call

\* The collaborators outside the gateway: the scaffold stream, the WebSocket
\* connection manager and the agent tracker.
VARIABLES
    scaffold,                \* one run of _stream_scaffold and its subprocess
    manager,                 \* a ConnectionManager and the operations on it
    tracker                  \* an AgentTracker and the process_line calls on it

others == <<scaffold, manager, tracker>>

sse_vars == <<pc, consumed, events, output_tokens, block_index, current_block_type,
              tool_call_accumulators, uuid_count, exit_path>>
hvars == <<hpc, env, body, call_kwargs, backend_calls, outcome, reply>>

vars == <<pc, consumed, events, output_tokens, block_index, current_block_type,
          tool_call_accumulators, uuid_count, exit_path,
          hpc, env, body, call_kwargs, backend_calls, outcome, reply,
          count_log, generators, scaffold, manager, tracker>>

\* An absent value (a missing key, an unset variable) and a present one.
Missing == [has |-> FALSE]
Some(v) == [has |-> TRUE, v |-> v]

\* ------------------------------------------------------------------------
\* Bounds and input alphabets
\* ------------------------------------------------------------------------

\* Longest backend stream (number of chunks) the model explores.
MaxChunks == 3

None == "None"

\* The model argument of _stream_anthropic_sse and the generated message id.
Model == "backend-model"
MsgId == "msg_uuid"

\* Tool ids produced by uuid4 (proxy.py:420), fresh on each draw.
ToolUuids == <<"toolu_u1", "toolu_u2", "toolu_u3">>

Texts == {"Hi", " there"}
FinishReasons == {"stop", "length", "tool_calls", "content_filter", "eos"}
TcIndices == {0, 1}
CallIds == <<"call_0", "call_1">>
ToolNames == <<"get", "put">>

\* One element of delta.tool_calls.
TcDelta(has_index, index, id, function, name, arguments) ==
    [has_index |-> has_index, index |-> index, id |-> id,
     function |-> function, name |-> name, arguments |-> arguments]

\* First fragment of a call: id and name, no arguments yet.
TcNamed(i) == TcDelta(TRUE, i, CallIds[i + 1], TRUE, ToolNames[i + 1], <<>>)
\* Argument fragment of a call: neither id nor name.
TcArgs(i, frag) == TcDelta(TRUE, i, "", TRUE, "", frag)
\* A fragment on index 0 that carries another name and nothing else.
TcRename == TcDelta(TRUE, 0, "", TRUE, "rename", <<>>)
\* A fragment with neither an index attribute nor a function.
TcBare == TcDelta(FALSE, 0, "", FALSE, "", <<>>)

ToolCallLists ==
    {<<TcNamed(i)>> : i \in TcIndices}
    \cup {<<TcArgs(0, <<"{">>)>>, <<TcArgs(0, <<"}">>)>>, <<TcArgs(1, <<"{">>)>>}
    \cup {<<TcRename>>, <<TcBare>>}
    \cup {<<TcNamed(i), TcArgs(i, <<"{">>)>> : i \in TcIndices}
    \cup {<<TcNamed(0), TcNamed(1)>>}

\* A chunk: choices is FALSE for an empty choices list; delta is FALSE for a
\* choice whose delta is None; content "" and finish_reason "" stand for None.
Chunk(choices, delta, content, tool_calls, finish_reason) ==
    [choices |-> choices, delta |-> delta, content |-> content,
     tool_calls |-> tool_calls, finish_reason |-> finish_reason]

Deltas ==
    {<<"", <<>>>>}
    \cup {<<t, <<>>>> : t \in Texts}
    \cup {<<"", l>> : l \in ToolCallLists}
    \cup {<<"Hi", <<TcNamed(0)>>>>}

Chunks ==
    {Chunk(FALSE, FALSE, "", <<>>, "")}
    \cup {Chunk(TRUE, TRUE, d[1], d[2], f) : d \in Deltas, f \in FinishReasons \cup {""}}
    \cup {Chunk(TRUE, FALSE, "", <<>>, f) : f \in FinishReasons}

\* ------------------------------------------------------------------------
\* SSE events (the data dict of each sse(...) call; json.dumps is injective
\* on these dicts, so an event is modelled by its fields)
\* ------------------------------------------------------------------------

Ev(event) ==
    [event |-> event, index |-> -1, type |-> "", id |-> "", name |-> "",
     model |-> "", text |-> "", partial_json |-> <<>>, stop_reason |-> "",
     input_tokens |-> -1, output_tokens |-> -1]

MessageStart ==
    [Ev("message_start") EXCEPT !.id = MsgId, !.model = Model,
                                !.input_tokens = 0, !.output_tokens = 0]
Ping == Ev("ping")
ContentBlockStop(i) == [Ev("content_block_stop") EXCEPT !.index = i]
ContentBlockStartText(i) ==
    [Ev("content_block_start") EXCEPT !.index = i, !.type = "text"]
ContentBlockStartTool(i, id, name) ==
    [Ev("content_block_start") EXCEPT !.index = i, !.type = "tool_use",
                                      !.id = id, !.name = name]
TextDelta(i, text) ==
    [Ev("content_block_delta") EXCEPT !.index = i, !.type = "text_delta",
                                      !.text = text]
InputJsonDelta(i, frag) ==
    [Ev("content_block_delta") EXCEPT !.index = i, !.type = "input_json_delta",
                                      !.partial_json = frag]
MessageDelta(stop_reason, tokens) ==
    [Ev("message_delta") EXCEPT !.stop_reason = stop_reason,
                                !.output_tokens = tokens]
MessageStop == Ev("message_stop")

\* ------------------------------------------------------------------------
\* Format converter used by the transcoder
\* ------------------------------------------------------------------------

\* Variant: the table lacks the tool_calls entry.
_translate_finish_reason_PassUnknown(reason) ==
    CASE reason = "stop" -> "end_turn"
      [] reason = "length" -> "max_tokens"
      [] reason = "tool_calls" -> "tool_use"
      [] reason = "content_filter" -> "end_turn"
      [] reason = "" \/ reason = None -> "end_turn"
      [] OTHER -> reason

_translate_finish_reason_NoToolCalls(reason) ==
    CASE reason = "stop" -> "end_turn"
      [] reason = "length" -> "max_tokens"
      [] reason = "content_filter" -> "end_turn"
      [] OTHER -> "end_turn"

\* Map OpenAI finish_reason to Anthropic stop_reason: proxy.py:262-272.
_translate_finish_reason(reason) ==
    CASE reason = "stop" -> "end_turn"
      [] reason = "length" -> "max_tokens"
      [] reason = "tool_calls" -> "tool_use"
      [] reason = "content_filter" -> "end_turn"
      [] OTHER -> "end_turn"

\* ------------------------------------------------------------------------
\* The generator's local state as one record, and its steps as operators
\* ------------------------------------------------------------------------

Locals ==
    [output_tokens |-> output_tokens, block_index |-> block_index,
     current_block_type |-> current_block_type,
     tool_call_accumulators |-> tool_call_accumulators,
     uuid_count |-> uuid_count, yielded |-> events]

Yield(s, e) == [s EXCEPT !.yielded = Append(@, e)]

\* Variant: the previous block is left without its content_block_stop.
ClosePreviousBlock_NoStop(s) ==
    IF s.current_block_type # None
    THEN [s EXCEPT !.block_index = @ + 1]
    ELSE s

\* Variant: the block index is not advanced after closing a block.
ClosePreviousBlock_NoAdvance(s) ==
    IF s.current_block_type # None
    THEN Yield(s, ContentBlockStop(s.block_index))
    ELSE s

\* "Close previous block if any": proxy.py:381-386 and 410-415.
ClosePreviousBlock(s) ==
    IF s.current_block_type # None
    THEN [Yield(s, ContentBlockStop(s.block_index)) EXCEPT !.block_index = @ + 1]
    ELSE s

\* Variant: every text fragment opens a block of its own.
HandleTextDelta_Reopen(s, chunk) ==
    IF chunk.delta /\ chunk.content # ""
    THEN LET c == ClosePreviousBlock(s)
             o == [c EXCEPT !.current_block_type = "text"]
             s1 == Yield(o, ContentBlockStartText(o.block_index))
             s2 == Yield(s1, TextDelta(s1.block_index, chunk.content))
         IN  [s2 EXCEPT !.output_tokens = @ + 1]
    ELSE s

\* Variant: text fragments are not counted.
HandleTextDelta_NoCount(s, chunk) ==
    IF chunk.delta /\ chunk.content # ""
    THEN LET s1 == IF s.current_block_type # "text"
                   THEN LET c == ClosePreviousBlock(s)
                            o == [c EXCEPT !.current_block_type = "text"]
                        IN  Yield(o, ContentBlockStartText(o.block_index))
                   ELSE s
         IN  Yield(s1, TextDelta(s1.block_index, chunk.content))
    ELSE s

\* Text content of a chunk: proxy.py:376-401.
HandleTextDelta(s, chunk) ==
    IF chunk.delta /\ chunk.content # ""
    THEN LET s1 == IF s.current_block_type # "text"
                   THEN LET c == ClosePreviousBlock(s)
                            o == [c EXCEPT !.current_block_type = "text"]
                        IN  Yield(o, ContentBlockStartText(o.block_index))
                   ELSE s
             s2 == Yield(s1, TextDelta(s1.block_index, chunk.content))
         IN  [s2 EXCEPT !.output_tokens = @ + 1]
    ELSE s

\* tc_idx = tc_delta.index if hasattr(tc_delta, "index") else 0
TcIdx(tc) == IF tc.has_index THEN tc.index ELSE 0

\* First fragment of a backend index: proxy.py:408-444.
RegisterToolCall(s, tc) ==
    LET c == ClosePreviousBlock(s)
        drawn == tc.id = ""
        tool_id == IF drawn THEN ToolUuids[c.uuid_count + 1] ELSE tc.id
        tool_name == IF tc.function THEN tc.name ELSE ""
        acc == [id |-> tool_id, name |-> tool_name, arguments |-> <<>>,
                block_index |-> c.block_index]
        r == [c EXCEPT !.tool_call_accumulators =
                           [k \in DOMAIN @ \cup {TcIdx(tc)} |->
                               IF k = TcIdx(tc) THEN acc ELSE @[k]],
                       !.current_block_type = "tool_use",
                       !.uuid_count = IF drawn THEN @ + 1 ELSE @]
    IN  Yield(r, ContentBlockStartTool(c.block_index, tool_id, tool_name))

\* Variant: a fragment replaces the accumulated arguments.
AccumulateArguments_Replace(s, tc) ==
    IF tc.function
    THEN LET i == TcIdx(tc)
             n == IF tc.name # ""
                  THEN [s EXCEPT !.tool_call_accumulators[i].name = tc.name]
                  ELSE s
         IN  IF tc.arguments # <<>>
             THEN Yield([n EXCEPT !.tool_call_accumulators[i].arguments =
                                      tc.arguments],
                        InputJsonDelta(n.tool_call_accumulators[i].block_index,
                                       tc.arguments))
             ELSE n
    ELSE s

\* Variant: the input delta carries the accumulated total.
AccumulateArguments_Total(s, tc) ==
    IF tc.function
    THEN LET i == TcIdx(tc)
             n == IF tc.name # ""
                  THEN [s EXCEPT !.tool_call_accumulators[i].name = tc.name]
                  ELSE s
         IN  IF tc.arguments # <<>>
             THEN Yield([n EXCEPT !.tool_call_accumulators[i].arguments =
                                      @ \o tc.arguments],
                        InputJsonDelta(n.tool_call_accumulators[i].block_index,
                                       n.tool_call_accumulators[i].arguments
                                           \o tc.arguments))
             ELSE n
    ELSE s

\* "Accumulate arguments": proxy.py:446-464.
AccumulateArguments(s, tc) ==
    IF tc.function
    THEN LET i == TcIdx(tc)
             n == IF tc.name # ""
                  THEN [s EXCEPT !.tool_call_accumulators[i].name = tc.name]
                  ELSE s
         IN  IF tc.arguments # <<>>
             THEN Yield([n EXCEPT !.tool_call_accumulators[i].arguments =
                                      @ \o tc.arguments],
                        InputJsonDelta(n.tool_call_accumulators[i].block_index,
                                       tc.arguments))
             ELSE n
    ELSE s

\* One iteration of "for tc_delta in delta.tool_calls": proxy.py:405-464.
HandleToolCallDelta(s, tc) ==
    AccumulateArguments(
        IF TcIdx(tc) \notin DOMAIN s.tool_call_accumulators
        THEN RegisterToolCall(s, tc) ELSE s,
        tc)

RECURSIVE HandleToolCalls(_, _)
\* The tool-call fragments of a chunk, in list order: proxy.py:404-464.
HandleToolCalls(s, tcs) ==
    IF tcs = <<>> THEN s
    ELSE HandleToolCalls(HandleToolCallDelta(s, Head(tcs)), Tail(tcs))

\* Finish reason of a chunk: proxy.py:467-492.
HandleFinish(s, chunk) ==
    LET c == IF s.current_block_type # None
             THEN Yield(s, ContentBlockStop(s.block_index)) ELSE s
        d == Yield(c, MessageDelta(_translate_finish_reason(chunk.finish_reason),
                                   c.output_tokens))
    IN  Yield(d, MessageStop)

\* The except branch: proxy.py:494-507.
ErrorClose(s) ==
    LET c == IF s.current_block_type # None
             THEN Yield(s, ContentBlockStop(s.block_index)) ELSE s
        d == Yield(c, MessageDelta("end_turn", c.output_tokens))
    IN  Yield(d, MessageStop)

\* Variant: the open block is not stopped when the stream just ends.
GracefulClose_NoBlockStop(s) ==
    Yield(Yield(s, MessageDelta("end_turn", s.output_tokens)), MessageStop)

\* The code after the try statement: proxy.py:509-520.
GracefulClose(s) ==
    LET c == IF s.current_block_type # None
             THEN Yield(s, ContentBlockStop(s.block_index)) ELSE s
        d == Yield(c, MessageDelta("end_turn", c.output_tokens))
    IN  Yield(d, MessageStop)

\* Text and tool-call parts of the loop body: proxy.py:372-464.
HandleDelta(s, chunk) ==
    IF chunk.delta
    THEN HandleToolCalls(HandleTextDelta(s, chunk), chunk.tool_calls)
    ELSE s

\* Variant: the loop goes on after a finish reason.
Returns_Never(chunk) == FALSE

\* Does the loop body end in "return" (proxy.py:467, 492)?
Returns(chunk) == chunk.choices /\ chunk.finish_reason # ""

\* The loop body for one chunk: proxy.py:369-492.
ProcessChunk(s, chunk) ==
    IF ~chunk.choices THEN s
    ELSE LET d == HandleDelta(s, chunk)
         IN  IF chunk.finish_reason # "" THEN HandleFinish(d, chunk) ELSE d

SetLocals(s) ==
    /\ output_tokens' = s.output_tokens
    /\ block_index' = s.block_index
    /\ current_block_type' = s.current_block_type
    /\ tool_call_accumulators' = s.tool_call_accumulators
    /\ uuid_count' = s.uuid_count
    /\ events' = s.yielded

\* ------------------------------------------------------------------------
\* Initial state and actions
\* ------------------------------------------------------------------------

Init ==
    /\ pc = "start"
    /\ consumed = <<>>
    /\ events = <<>>
    /\ output_tokens = 0
    /\ block_index = 0
    /\ current_block_type = None
    /\ tool_call_accumulators = <<>>
    /\ uuid_count = 0
    /\ exit_path = ""
    /\ hpc = "off"
    /\ env = Missing
    /\ body = Missing
    /\ call_kwargs = Missing
    /\ backend_calls = 0
    /\ outcome = Missing
    /\ reply = Missing
    /\ count_log = <<>>
    /\ generators = <<>>
    /\ scaffold = <<>>
    /\ manager = <<>>
    /\ tracker = <<>>

\* Variant: the two opening events are emitted in the other order.
Start_PingFirst ==
    /\ pc = "start"
    /\ pc' = "stream"
    /\ events' = events \o <<Ping, MessageStart>>
    /\ UNCHANGED <<consumed, output_tokens, block_index, current_block_type,
                   tool_call_accumulators, uuid_count, exit_path>>
    /\ UNCHANGED hvars
    /\ UNCHANGED generators
    /\ UNCHANGED others
    /\ UNCHANGED count_log

\* proxy.py:351-365: message_start and ping, before the stream is read.
Start ==
    /\ pc = "start"
    /\ pc' = "stream"
    /\ events' = events \o <<MessageStart, Ping>>
    /\ UNCHANGED <<consumed, output_tokens, block_index, current_block_type,
                   tool_call_accumulators, uuid_count, exit_path>>
    /\ UNCHANGED hvars
    /\ UNCHANGED generators
    /\ UNCHANGED others
    /\ UNCHANGED count_log

\* proxy.py:368-492: the stream delivers a chunk and the loop body runs on it.
NextChunk ==
    /\ pc = "stream"
    /\ Len(consumed) < MaxChunks
    /\ \E chunk \in Chunks :
          /\ consumed' = Append(consumed, chunk)
          /\ SetLocals(ProcessChunk(Locals, chunk))
          /\ pc' = IF Returns(chunk) THEN "done" ELSE "stream"
          /\ exit_path' = IF Returns(chunk) THEN "finish" ELSE ""
    /\ UNCHANGED hvars
    /\ UNCHANGED generators
    /\ UNCHANGED others
    /\ UNCHANGED count_log

\* proxy.py:368, 494-520: reading the stream raises; the except branch runs
\* and, as it does not return, so does the code after the try statement.
StreamRaises ==
    /\ pc = "stream"
    /\ SetLocals(GracefulClose(ErrorClose(Locals)))
    /\ pc' = "done"
    /\ exit_path' = "fault"
    /\ UNCHANGED consumed
    /\ UNCHANGED hvars
    /\ UNCHANGED generators
    /\ UNCHANGED others
    /\ UNCHANGED count_log

\* proxy.py:368, 509-520: the stream is exhausted with no finish reason seen.
StreamExhausted ==
    /\ pc = "stream"
    /\ SetLocals(GracefulClose(Locals))
    /\ pc' = "done"
    /\ exit_path' = "silent"
    /\ UNCHANGED consumed
    /\ UNCHANGED hvars
    /\ UNCHANGED generators
    /\ UNCHANGED others
    /\ UNCHANGED count_log

Next == Start \/ NextChunk \/ StreamRaises \/ StreamExhausted

Spec == Init /\ [][Next]_vars

\* ------------------------------------------------------------------------
\* Reading an event sequence
\* ------------------------------------------------------------------------

EventNames ==
    {"message_start", "ping", "content_block_start", "content_block_delta",
     "content_block_stop", "message_delta", "message_stop"}

\* Positions of the events of one name / of one name and block index.
Positions(seq, name) == {k \in DOMAIN seq : seq[k].event = name}
PositionsAt(seq, name, i) ==
    {k \in DOMAIN seq : seq[k].event = name /\ seq[k].index = i}

BlockIndices(seq) ==
    {seq[k].index : k \in Positions(seq, "content_block_start")
                         \cup Positions(seq, "content_block_delta")
                         \cup Positions(seq, "content_block_stop")}

Done == pc = "done"

\* ------------------------------------------------------------------------
\* Claims about the streaming transcoder
\* ------------------------------------------------------------------------

\* C1: on every exit path the complete event sequence contains exactly one
\* message_delta and exactly one message_stop, and they are its last two
\* events, in that order.
C1_OneTerminalPair ==
    Done =>
        /\ Cardinality(Positions(events, "message_delta")) = 1
        /\ Cardinality(Positions(events, "message_stop")) = 1
        /\ Len(events) >= 2
        /\ events[Len(events) - 1].event = "message_delta"
        /\ events[Len(events)].event = "message_stop"

\* C2: in the complete event sequence every content_block_start(i) is
\* followed by exactly one content_block_stop(i), and no content_block_stop(i)
\* comes without a content_block_start(i) before it, on all exit paths.
C2_StartStopPaired ==
    Done =>
        /\ \A k \in Positions(events, "content_block_start") :
              Cardinality({m \in PositionsAt(events, "content_block_stop",
                                             events[k].index) : m > k}) = 1
        /\ \A m \in Positions(events, "content_block_stop") :
              \E k \in PositionsAt(events, "content_block_start",
                                   events[m].index) : k < m

\* C3: every content_block_delta tagged with index i comes after
\* content_block_start(i) and before content_block_stop(i).
C3_DeltaInsideItsBlock ==
    \A k \in Positions(events, "content_block_delta") :
        /\ \E j \in PositionsAt(events, "content_block_start", events[k].index) :
              j < k
        /\ \A m \in PositionsAt(events, "content_block_stop", events[k].index) :
              m > k

\* C4: at every point of the call at most one content block is open: no
\* content_block_start is emitted while an earlier block has no
\* content_block_stop yet.
C4_AtMostOneOpenBlock ==
    \A j, k \in Positions(events, "content_block_start") :
        j < k => \E m \in PositionsAt(events, "content_block_stop",
                                      events[j].index) : j < m /\ m < k

\* A text block, then a tool call, then a tool call at another backend index,
\* then a text block again.
C4_Witness ==
    \E a, b, c, d \in Positions(events, "content_block_start") :
        /\ a < b /\ b < c /\ c < d
        /\ events[a].type = "text" /\ events[b].type = "tool_use"
        /\ events[c].type = "tool_use" /\ events[d].type = "text"

\* C5 (state part): the indices of the content_block_start events are
\* strictly increasing in emission order and the first one is 0.
StartIndicesIncrease ==
    /\ \A j, k \in Positions(events, "content_block_start") :
          j < k => events[j].index < events[k].index
    /\ \A k \in Positions(events, "content_block_start") :
          (\A j \in Positions(events, "content_block_start") : k <= j)
              => events[k].index = 0

\* C5 (step part): an accumulator, once created, stays and keeps its block
\* index.
AccumulatorIndexKept ==
    \A i \in DOMAIN tool_call_accumulators :
        /\ i \in DOMAIN tool_call_accumulators'
        /\ tool_call_accumulators'[i].block_index =
               tool_call_accumulators[i].block_index

\* C5: block indices are assigned once, strictly increasing from 0, never
\* reused, and an accumulator's block index never changes.
C5_BlockIndicesAssignedOnce ==
    []StartIndicesIncrease /\ [][AccumulatorIndexKept]_vars

\* Three blocks were started and an accumulator of the first chunk is still
\* there after a later chunk opened another block.
C5_Witness ==
    /\ Cardinality(Positions(events, "content_block_start")) >= 3
    /\ \E i \in DOMAIN tool_call_accumulators :
          tool_call_accumulators[i].block_index < block_index

\* Index of the block started last.
LastStartedIndex(seq) ==
    LET P == Positions(seq, "content_block_start")
        k == CHOOSE x \in P : \A y \in P : y <= x
    IN  seq[k].index

\* C6: after a fault raised while a block is open and before any finish
\* reason, the event sequence ends with content_block_stop of that block,
\* message_delta(end_turn), message_stop, and every event has one of the
\* seven event names.
C6_FaultEndsWithTerminalTriple ==
    (Done /\ exit_path = "fault" /\ current_block_type # None) =>
        /\ Len(events) >= 3
        /\ events[Len(events) - 2] = ContentBlockStop(LastStartedIndex(events))
        /\ events[Len(events) - 1].event = "message_delta"
        /\ events[Len(events) - 1].stop_reason = "end_turn"
        /\ events[Len(events)] = MessageStop
        /\ \A k \in DOMAIN events : events[k].event \in EventNames

\* A fault hit a stream whose last block, a tool call, was open.
C6_Witness ==
    /\ Done /\ exit_path = "fault" /\ current_block_type = "tool_use"
    /\ Len(consumed) >= 2

\* C7: after a chunk prefix without finish reason, a fault of the backend
\* stream yields the same event sequence as a silent end of the stream.
C7_FaultSameAsSilentEnd ==
    [][(pc = "stream" /\ pc' = "done" /\ exit_path' = "fault")
          => events' = GracefulClose(Locals).yielded]_vars

\* A chunk that carries text and nothing else / a finish reason and nothing else.
TextOnly(c) ==
    c.choices /\ c.delta /\ c.content # "" /\ c.tool_calls = <<>>
              /\ c.finish_reason = ""
FinishOnly(c) ==
    c.choices /\ c.content = "" /\ c.tool_calls = <<>> /\ c.finish_reason # ""

TextThenFinish ==
    /\ Done
    /\ Len(consumed) >= 2
    /\ \A k \in 1 .. Len(consumed) - 1 : TextOnly(consumed[k])
    /\ FinishOnly(consumed[Len(consumed)])

RECURSIVE FlatToolCalls(_)
\* The tool-call fragments of a chunk sequence, in arrival order.
FlatToolCalls(chunks) ==
    IF chunks = <<>> THEN <<>>
    ELSE (IF Head(chunks).choices /\ Head(chunks).delta
          THEN Head(chunks).tool_calls ELSE <<>>) \o FlatToolCalls(Tail(chunks))

\* Fragments of backend index 0 (a name, then argument fragments), then
\* fragments of backend index 1 (a name, then argument fragments), then a
\* chunk with finish reason tool_calls.
TwoToolCallsThenFinish ==
    /\ Done
    /\ Len(consumed) >= 2
    /\ FinishOnly(consumed[Len(consumed)])
    /\ consumed[Len(consumed)].finish_reason = "tool_calls"
    /\ \A k \in 1 .. Len(consumed) - 1 :
          consumed[k].content = "" /\ consumed[k].finish_reason = ""
    /\ LET F == FlatToolCalls(SubSeq(consumed, 1, Len(consumed) - 1))
       IN  \E p \in 2 .. Len(F) - 2 :
              \A k \in 1 .. Len(F) :
                  /\ F[k].has_index /\ F[k].function
                  /\ F[k].index = IF k <= p THEN 0 ELSE 1
                  /\ IF k \in {1, p + 1}
                     THEN F[k].name # ""
                     ELSE F[k].name = "" /\ F[k].arguments # <<>>

\* C9: two tool calls at backend indices 0 then 1 followed by finish reason
\* tool_calls start two tool_use blocks at indices 0 and 1,
\* content_block_stop(0) comes before content_block_start(1),
\* content_block_stop(1) before message_delta, and the stop reason is
\* tool_use.
C9_TwoToolCallsInOrder ==
    TwoToolCallsThenFinish =>
        /\ Cardinality(Positions(events, "content_block_start")) = 2
        /\ \E a \in PositionsAt(events, "content_block_start", 0),
              b \in PositionsAt(events, "content_block_start", 1) :
              /\ events[a].type = "tool_use" /\ events[b].type = "tool_use"
              /\ \E m \in PositionsAt(events, "content_block_stop", 0) :
                    a < m /\ m < b
              /\ \E m \in PositionsAt(events, "content_block_stop", 1),
                    d \in Positions(events, "message_delta") : b < m /\ m < d
        /\ Positions(events, "message_delta") # {}
        /\ \A d \in Positions(events, "message_delta") :
              events[d].stop_reason = "tool_use"

C9_Witness == TwoToolCallsThenFinish

\* Blocks started and not stopped in seq.
OpenBlocks(seq) ==
    LET stops == Positions(seq, "content_block_stop")
    IN  {seq[j].index : j \in {k \in Positions(seq, "content_block_start") :
            \A m \in stops : m < k \/ seq[m].index # seq[k].index}}

CarriesFinish(c) == c.choices /\ c.finish_reason # ""
CarriesText(c) == c.choices /\ c.delta /\ c.content # ""
CarriesArguments(tc) == tc.function /\ tc.arguments # <<>>

\* C10: on a chunk with a finish reason the transcoder, after the text and
\* tool-call fragments of that chunk, stops the open block if any, emits
\* message_delta (translated stop reason, running token count) and
\* message_stop, and ends: no later chunk is read, no later event emitted.
C10_FinishEndsTheCall ==
    (\E k \in DOMAIN consumed : CarriesFinish(consumed[k])) =>
        LET n == Len(consumed)
            L == Len(events)
            F == FlatToolCalls(consumed)
        IN  /\ \A k \in DOMAIN consumed : CarriesFinish(consumed[k]) => k = n
            /\ Done
            /\ L >= 2
            /\ events[L] = MessageStop
            /\ events[L - 1] =
                   MessageDelta(_translate_finish_reason(consumed[n].finish_reason),
                                output_tokens)
            /\ Positions(events, "message_stop") = {L}
            /\ Positions(events, "message_delta") = {L - 1}
            /\ OpenBlocks(events) = {}
            /\ OpenBlocks(SubSeq(events, 1, L - 3)) # {}
                   <=> events[L - 2].event = "content_block_stop"
            /\ Cardinality({k \in DOMAIN events : events[k].type = "text_delta"})
                   = Cardinality({k \in DOMAIN consumed : CarriesText(consumed[k])})
            /\ Cardinality({k \in DOMAIN events :
                                events[k].type = "input_json_delta"})
                   = Cardinality({k \in DOMAIN F : CarriesArguments(F[k])})

\* The finish chunk itself carried text and a tool-call fragment.
C10_Witness ==
    /\ Done /\ exit_path = "finish"
    /\ Len(consumed) >= 2
    /\ CarriesText(consumed[Len(consumed)])
    /\ consumed[Len(consumed)].tool_calls # <<>>
    /\ consumed[Len(consumed)].finish_reason = "length"

\* C11: a fault of the backend stream is absorbed: the transcoder stops the
\* open block if any, emits message_delta(end_turn, running token count) and
\* message_stop, and ends there with no further event.
C11_FaultAbsorbedOnce ==
    (Done /\ exit_path = "fault") =>
        LET first == CHOOSE k \in Positions(events, "message_stop") :
                         \A m \in Positions(events, "message_stop") : k <= m
        IN  /\ Positions(events, "message_stop") # {}
            /\ events[first - 1] = MessageDelta("end_turn", output_tokens)
            /\ OpenBlocks(SubSeq(events, 1, first)) = {}
            /\ Len(events) = first

\* No block open, block index 0, no accumulators, token counter 0.
StateNone ==
    /\ current_block_type = None
    /\ block_index = 0
    /\ DOMAIN tool_call_accumulators = {}
    /\ output_tokens = 0

Str(s) == [kind |-> "str", s |-> s]
Num(n) == [kind |-> "int", n |-> n]
List(items) == [kind |-> "list", items |-> items]

Digits == <<"0", "1", "2", "3", "4", "5", "6", "7", "8", "9">>
\* str(n) of a one-digit number.
PyStrInt(n) == Digits[n + 1]

RECURSIVE Join(_, _)
\* sep.join(parts)
Join(parts, sep) ==
    IF parts = <<>> THEN ""
    ELSE IF Len(parts) = 1 THEN parts[1]
    ELSE parts[1] \o sep \o Join(Tail(parts), sep)

\* JSON documents (tool inputs, schemas): a number, a string or an object
\* given by its members in order.
JNum(n) == [j |-> "num", n |-> n]
JStr(t) == [j |-> "str", s |-> t]
JObj(members) == [j |-> "obj", members |-> members]
JMember(k, v) == [k |-> k, v |-> v]

RECURSIVE JsonDumps(_)
\* json.dumps(value) with the default separators ", " and ": ".
JsonDumps(value) ==
    CASE value.j = "num" -> PyStrInt(value.n)
      [] value.j = "str" -> "\"" \o value.s \o "\""
      [] value.j = "obj" ->
            "{" \o Join([i \in 1 .. Len(value.members) |->
                            "\"" \o value.members[i].k \o "\": "
                                 \o JsonDumps(value.members[i].v)], ", ")
                \o "}"

\* The JSON documents the model reads and writes.
JsonValues ==
    {JObj(<<>>), JObj(<<JMember("a", JNum(1))>>), JNum(3), JStr("x")}

\* json.loads(text): Some(value) for a document of JsonValues written with
\* or without the optional blanks, Missing for a JSONDecodeError.
JsonLoads(text) ==
    LET hits == {v \in JsonValues :
                    \/ text = JsonDumps(v)
                    \/ v = JObj(<<JMember("a", JNum(1))>>) /\ text = "{\"a\":1}"}
    IN  IF hits = {} THEN Missing ELSE Some(CHOOSE v \in hits : TRUE)

\* ------------------------------------------------------------------------
\* Format converters, Anthropic -> OpenAI
\* ------------------------------------------------------------------------

RECURSIVE TextOfBlocks(_)
\* The text of the text-typed dict blocks and the plain strings of a list,
\* in order: proxy.py:108-113 and 167-172.
TextOfBlocks(blocks) ==
    IF blocks = <<>> THEN <<>>
    ELSE LET b == Head(blocks)
         IN  (IF b.kind = "dict" /\ b.type = "text" THEN <<b.text>>
              ELSE IF b.kind = "str" THEN <<b.s>>
              ELSE <<>>) \o TextOfBlocks(Tail(blocks))

_translate_system_prompt_Spaces(system) ==
    CASE system.kind = "str" -> system.s
      [] system.kind = "list" -> Join(TextOfBlocks(system.items), " ")
      [] OTHER -> PyStrInt(system.n)

\* proxy.py:99-115
_translate_system_prompt(system) ==
    CASE system.kind = "str" -> system.s
      [] system.kind = "list" -> Join(TextOfBlocks(system.items), "\n")
      [] OTHER -> PyStrInt(system.n)

\* Tool-call ids produced by uuid4 (proxy.py:155), fresh on each draw.
CallUuids == <<"call_u1", "call_u2", "call_u3", "call_u4">>

RECURSIVE TextParts(_)
\* text_parts: proxy.py:150-151
TextParts(content) ==
    IF content = <<>> THEN <<>>
    ELSE LET b == Head(content)
         IN  (IF b.kind = "dict" /\ b.type = "text" THEN <<b.text>> ELSE <<>>)
             \o TextParts(Tail(content))

RECURSIVE ToolCallsOf(_, _)
\* tool_calls, n ids having been drawn before: proxy.py:153-161
ToolCallsOf(content, n) ==
    IF content = <<>> THEN <<>>
    ELSE LET b == Head(content)
         IN  IF b.kind = "dict" /\ b.type = "tool_use"
             THEN <<[id |-> IF b.id.has THEN b.id.v ELSE CallUuids[n + 1],
                     type |-> "function",
                     function |->
                         [name |-> b.name,
                          arguments |-> JsonDumps(IF b.input.has THEN b.input.v
                                                  ELSE JObj(<<>>))]]>>
                  \o ToolCallsOf(Tail(content), IF b.id.has THEN n ELSE n + 1)
             ELSE ToolCallsOf(Tail(content), n)

\* Number of ids drawn from uuid4 for a block list.
DrawsOf(content) ==
    Cardinality({i \in DOMAIN content :
        content[i].kind = "dict" /\ content[i].type = "tool_use"
            /\ ~content[i].id.has})

\* result_content: proxy.py:165-175
ResultContent(rc) ==
    CASE rc.kind = "list" -> Join(TextOfBlocks(rc.items), "\n")
      [] rc.kind = "str" -> rc.s
      [] OTHER -> PyStrInt(rc.n)

RECURSIVE ToolResults(_)
\* tool_results: proxy.py:163-181
ToolResults(content) ==
    IF content = <<>> THEN <<>>
    ELSE LET b == Head(content)
         IN  (IF b.kind = "dict" /\ b.type = "tool_result"
              THEN <<[role |-> "tool", tool_call_id |-> b.tool_use_id,
                      content |-> ResultContent(b.content)]>>
              ELSE <<>>) \o ToolResults(Tail(content))

ToolResultBranch_TextLast(role, text_parts, tool_results) ==
    tool_results \o (IF text_parts # <<>>
                     THEN <<[role |-> role, content |-> Join(text_parts, "\n")]>>
                     ELSE <<>>)

\* Text first, then one tool message per result: proxy.py:195-201
ToolResultBranch(role, text_parts, tool_results) ==
    (IF text_parts # <<>>
     THEN <<[role |-> role, content |-> Join(text_parts, "\n")]>>
     ELSE <<>>) \o tool_results

\* The OpenAI messages of one Anthropic message, n ids having been drawn
\* before: the loop body, proxy.py:130-209.
TranslateMessage(msg, n) ==
    LET role == IF msg.role.has THEN msg.role.v ELSE "user"
    IN  IF msg.content.has /\ msg.content.v.kind = "str"
        THEN <<[role |-> role, content |-> msg.content.v.s]>>
        ELSE IF msg.content.has /\ msg.content.v.kind = "list"
        THEN LET content == msg.content.v.items
                 text_parts == TextParts(content)
                 tool_calls == ToolCallsOf(content, n)
                 tool_results == ToolResults(content)
             IN  IF role = "assistant" /\ tool_calls # <<>>
                 THEN <<[role |-> "assistant", tool_calls |-> tool_calls,
                         content |-> IF text_parts # <<>>
                                     THEN Join(text_parts, "\n") ELSE None]>>
                 ELSE IF tool_results # <<>>
                 THEN ToolResultBranch(role, text_parts, tool_results)
                 ELSE IF text_parts # <<>>
                 THEN <<[role |-> role, content |-> Join(text_parts, "\n")]>>
                 ELSE <<[role |-> role, content |-> ""]>>
        ELSE <<[role |-> role,
                content |-> IF msg.content.has /\ msg.content.v.n # 0
                            THEN PyStrInt(msg.content.v.n) ELSE ""]>>

RECURSIVE TranslateFrom_Reversed(_, _)
TranslateFrom_Reversed(messages, n) ==
    IF messages = <<>> THEN <<>>
    ELSE LET msg == Head(messages)
             drawn == IF msg.content.has /\ msg.content.v.kind = "list"
                      THEN DrawsOf(msg.content.v.items) ELSE 0
         IN  TranslateFrom_Reversed(Tail(messages), n + drawn)
                 \o TranslateMessage(msg, n)

RECURSIVE TranslateFrom(_, _)
TranslateFrom(messages, n) ==
    IF messages = <<>> THEN <<>>
    ELSE LET msg == Head(messages)
             drawn == IF msg.content.has /\ msg.content.v.kind = "list"
                      THEN DrawsOf(msg.content.v.items) ELSE 0
         IN  TranslateMessage(msg, n) \o TranslateFrom(Tail(messages), n + drawn)

\* proxy.py:118-211
_translate_messages_to_openai(messages) == TranslateFrom(messages, 0)

\* proxy.py:214-233; the argument is Missing for an absent or null tools
\* key, the result is Missing for None.
_translate_tools_to_openai(tools) ==
    IF ~tools.has \/ tools.v = <<>> THEN Missing
    ELSE Some([i \in 1 .. Len(tools.v) |->
                  [type |-> "function",
                   function |-> [name |-> tools.v[i].name,
                                 description |-> tools.v[i].description,
                                 parameters |-> tools.v[i].input_schema]]])

\* Variant: a value that is not a dict is handed on as it is.
_translate_tool_choice_PassThrough(tool_choice) ==
    IF ~tool_choice.has THEN Missing
    ELSE IF tool_choice.v.kind = "dict"
    THEN CASE tool_choice.v.type = "auto" -> Some(Str("auto"))
           [] tool_choice.v.type = "any" -> Some(Str("required"))
           [] tool_choice.v.type = "tool" ->
                 Some([kind |-> "dict", type |-> "function",
                       function |-> [name |-> tool_choice.v.name]])
           [] OTHER -> Missing
    ELSE tool_choice

\* proxy.py:236-257; the result is Missing for None.
_translate_tool_choice(tool_choice) ==
    IF ~tool_choice.has THEN Missing
    ELSE IF tool_choice.v.kind = "dict"
    THEN CASE tool_choice.v.type = "auto" -> Some(Str("auto"))
           [] tool_choice.v.type = "any" -> Some(Str("required"))
           [] tool_choice.v.type = "tool" ->
                 Some([kind |-> "dict", type |-> "function",
                       function |-> [name |-> tool_choice.v.name]])
           [] OTHER -> Missing
    ELSE Missing

\* ------------------------------------------------------------------------
\* Format converter, OpenAI -> Anthropic (non-streaming)
\* ------------------------------------------------------------------------

\* The arguments attribute of a backend tool call's function: a string,
\* null, or not there at all.
ArgStr(t) == [kind |-> "str", s |-> t]
ArgNull == [kind |-> "null"]
ArgAbsent == [kind |-> "absent"]

\* input_data of one tool call, proxy.py:290-293: Some(value), or Missing
\* when json.loads raises what the except clause does not name (a
\* TypeError for an argument that is not text).
ToolUseInput(arguments) ==
    CASE arguments.kind = "str" ->
            IF JsonLoads(arguments.s).has THEN Some(JsonLoads(arguments.s).v)
            ELSE Some(JObj(<<>>))
      [] arguments.kind = "absent" -> Some(JObj(<<>>))
      [] OTHER -> Missing

\* Number of tool ids drawn from uuid4 before the i-th tool call.
ToolDraws(tool_calls, i) ==
    Cardinality({j \in 1 .. i - 1 : tool_calls[j].id = ""})

\* proxy.py:295-300
ToolUseBlock(tool_calls, i) ==
    [type |-> "tool_use",
     id |-> IF tool_calls[i].id # "" THEN tool_calls[i].id
            ELSE ToolUuids[ToolDraws(tool_calls, i) + 1],
     name |-> tool_calls[i].function.name,
     input |-> ToolUseInput(tool_calls[i].function.arguments).v]

UsageField_AbsentIsOne(usage, key) ==
    IF usage.has /\ usage.v[key].has THEN usage.v[key].v ELSE 1

\* getattr(usage, key, 0) or 0: proxy.py:303-305
UsageField(usage, key) ==
    IF usage.has /\ usage.v[key].has THEN usage.v[key].v ELSE 0

\* proxy.py:275-323; [raised |-> TRUE, ...] when the function raises.
_build_anthropic_response(oai_response, model) ==
    LET has_choice == oai_response.choices # <<>>
        choice == oai_response.choices[1]
        has_message == has_choice /\ choice.message.has
        message == choice.message.v
        tool_calls == IF has_message /\ message.tool_calls.has
                      THEN message.tool_calls.v ELSE <<>>
        text_blocks == IF has_message /\ message.content # None
                            /\ message.content # ""
                       THEN <<[type |-> "text", text |-> message.content]>>
                       ELSE <<>>
    IN  IF \E i \in DOMAIN tool_calls :
              ~ToolUseInput(tool_calls[i].function.arguments).has
        THEN [raised |-> TRUE, error |-> "TypeError"]
        ELSE [raised |-> FALSE,
              id |-> MsgId,
              type |-> "message",
              role |-> "assistant",
              content |-> text_blocks
                  \o [i \in DOMAIN tool_calls |-> ToolUseBlock(tool_calls, i)],
              model |-> model,
              stop_reason |-> _translate_finish_reason(
                  IF has_choice THEN choice.finish_reason ELSE None),
              stop_sequence |-> None,
              usage |-> [input_tokens |-> UsageField(oai_response.usage, "prompt_tokens"),
                         output_tokens |-> UsageField(oai_response.usage, "completion_tokens")]]

\* ------------------------------------------------------------------------
\* proxy_messages: settings, inbound bodies and backend outcomes
\* ------------------------------------------------------------------------

\* proxy.py:44-55, by its first and last words.
_COMPAT_PREAMBLE ==
    "You are a capable AI coding assistant. ... to accomplish every goal.\n\n"

\* The provider table of the registry, read at proxy.py:552: one provider
\* without a base URL of its own, one with a base URL and a default model.
API_PROVIDERS ==
    [claude |-> [name |-> "Claude"],
     ionos |-> [name |-> "IONOS", base_url |-> "https://ionos.example/v1",
                default_model |-> "ionos-default"]]

\* provider.get(key, "")
ProviderGet(provider, key) ==
    IF key \in DOMAIN provider THEN provider[key] ELSE ""

\* Settings returned by get_all_settings(), and whether litellm imported.
\* A setting read with "or" is "" when unset.
BaseEnv ==
    [litellm |-> TRUE, api_provider |-> Some("ionos"), api_base_url |-> "",
     api_auth_token |-> "sk-1", api_model |-> ""]

Envs ==
    {[BaseEnv EXCEPT !.litellm = FALSE]}
    \cup {[BaseEnv EXCEPT !.api_provider = p, !.api_base_url = u] :
            p \in {Missing, Some("ionos"), Some("nope")},
            u \in {"", "http://override:4010"}}
    \cup {[BaseEnv EXCEPT !.api_model = "cfg-model"]}

\* Inbound tools, tool choices and temperatures (in hundredths).
Tool(name) ==
    [name |-> name, description |-> "runs " \o name,
     input_schema |-> JObj(<<JMember("type", JStr("object"))>>)]

ToolLists ==
    {Missing, Some(<<>>), Some(<<Tool("Bash")>>),
     Some(<<Tool("Bash"), Tool("Read")>>)}

ToolChoices ==
    {Missing,
     Some([kind |-> "dict", type |-> "auto"]),
     Some([kind |-> "dict", type |-> "any"]),
     Some([kind |-> "dict", type |-> "tool", name |-> "Bash"]),
     Some([kind |-> "dict", type |-> "none"]),
     Some(Str("auto"))}

DefaultTemperature == 100
TemperatureCap == 60
DefaultMaxTokens == 4096
Temperatures == {Missing, Some(40), Some(60), Some(90)}

\* Inbound system prompts.
TextBlock(t) == [kind |-> "dict", type |-> "text", text |-> t]
ImageBlock == [kind |-> "dict", type |-> "image"]

Systems ==
    {Missing, Some(Str("")), Some(Str("Be brief.")), Some(List(<<>>)),
     Some(List(<<TextBlock("Be brief."), TextBlock("Use tools.")>>)),
     Some(List(<<TextBlock("Be brief."), ImageBlock, Str("raw")>>)),
     Some(Num(7))}

\* Inbound conversation messages.
ToolUse(id, name, input) ==
    [kind |-> "dict", type |-> "tool_use", id |-> id, name |-> name,
     input |-> input]
ToolResult(tool_use_id, content) ==
    [kind |-> "dict", type |-> "tool_result", tool_use_id |-> tool_use_id,
     content |-> content]
Msg(role, content) == [role |-> role, content |-> content]

BlockLists ==
    {<<TextBlock("hello")>>,
     <<TextBlock("a"), TextBlock("b")>>,
     <<ImageBlock>>,
     <<ToolResult("T1", Str("ok"))>>,
     <<ToolResult("T1", Str("ok")), ToolResult("T2", List(<<TextBlock("x"), Str("y")>>))>>,
     <<ToolResult("T2", Num(7)), ToolResult("T1", Str("ok"))>>,
     <<TextBlock("see"), ToolResult("T1", Str("ok"))>>,
     <<ToolResult("T1", Str("ok")), TextBlock("see"), ToolResult("T2", Str("no"))>>,
     <<TextBlock(""), ToolResult("T1", Str("ok"))>>,
     <<Str("raw"), ToolResult("T1", Str("ok"))>>,
     <<ToolUse(Some("T1"), "Bash", Some(JObj(<<JMember("a", JNum(1))>>)))>>,
     <<TextBlock("run"), ToolUse(Missing, "Bash", Missing), ToolUse(Missing, "Read", Some(JObj(<<>>)))>>,
     <<ToolUse(Some("T1"), "Bash", Missing), ToolResult("T1", Str("ok"))>>}

Messages ==
    {Msg(Some("user"), Some(Str("hi"))),
     Msg(Missing, Some(Str("hi"))),
     Msg(Some("user"), Missing),
     Msg(Some("user"), Some(Num(7)))}
    \cup {Msg(Some(r), Some(List(bl))) : r \in {"user", "assistant"}, bl \in BlockLists}

MessageLists ==
    {Missing, Some(<<>>)}
    \cup {Some(<<m>>) : m \in Messages}
    \cup {Some(<<Msg(Some("assistant"), Some(List(bl))), m>>) :
            bl \in {<<ToolUse(Missing, "Bash", Missing)>>},
            m \in {Msg(Some("user"), Some(List(<<ToolResult("T1", Str("ok"))>>))),
                   Msg(Some("assistant"), Some(List(<<ToolUse(Missing, "Read", Missing)>>)))}}

BaseBody ==
    [model |-> Some("req-model"), stream |-> Missing, system |-> Missing,
     messages |-> Some(<<Msg(Some("user"), Some(Str("hi")))>>),
     tools |-> Missing, tool_choice |-> Missing, max_tokens |-> Missing,
     temperature |-> Missing, top_p |-> Missing]

Bodies ==
    {[BaseBody EXCEPT !.tools = t, !.tool_choice = c, !.temperature = d] :
        t \in ToolLists, c \in ToolChoices, d \in Temperatures}
    \cup {[BaseBody EXCEPT !.system = y] : y \in Systems}
    \cup {[BaseBody EXCEPT !.messages = m] : m \in MessageLists}
    \cup {[BaseBody EXCEPT !.system = Some(Str("Be brief.")), !.messages = m] :
            m \in {Missing, Some(<<Msg(Some("user"), Some(List(<<TextBlock("see"), ToolResult("T1", Str("ok"))>>))),
                                   Msg(Some("assistant"), Some(Str("done")))>>)}}
    \cup {[BaseBody EXCEPT !.model = m, !.stream = st, !.top_p = tp, !.max_tokens = mt] :
            m \in {Missing, Some(""), Some("req-model")},
            st \in {Missing, Some(FALSE), Some(TRUE)},
            tp \in {Missing, Some(95)},
            mt \in {Missing, Some(256)}}

\* Backend replies on the non-streaming path.
ToolCall(id, name, arguments) ==
    [id |-> id, function |-> [name |-> name, arguments |-> arguments]]
Arguments ==
    {ArgStr("{}"), ArgStr("{\"a\": 1}"), ArgStr("{\"a\""), ArgStr(""),
     ArgNull, ArgAbsent}
Usage(prompt_tokens, completion_tokens) ==
    [prompt_tokens |-> prompt_tokens, completion_tokens |-> completion_tokens]
Choice(message, finish_reason) ==
    [message |-> message, finish_reason |-> finish_reason]
Message(content, tool_calls) == [content |-> content, tool_calls |-> tool_calls]
Response(choices, usage) == [choices |-> choices, usage |-> usage]

BackendFinishReasons == FinishReasons \cup {"", None}

Responses ==
    {Response(<<>>, Missing),
     Response(<<Choice(Missing, "stop")>>, Some(Usage(Some(3), Some(5))))}
    \cup {Response(<<Choice(Some(Message(c, Missing)), f)>>, Some(Usage(Some(3), Some(5)))) :
            c \in {None, "", "Hello"}, f \in BackendFinishReasons}
    \cup {Response(<<Choice(Some(Message("Hello", Some(<<>>))), "stop")>>, u) :
            u \in {Missing, Some(Usage(Missing, Some(5))), Some(Usage(Some(3), Missing))}}
    \cup {Response(<<Choice(Some(Message(c, Some(<<ToolCall(i, "Bash", a)>>))), "tool_calls"),
                     Choice(Some(Message("second", Missing)), "length")>>,
                   Some(Usage(Some(3), Some(5)))) :
            c \in {None, "Running"}, i \in {"", "call_1"}, a \in Arguments}
    \cup {Response(<<Choice(Some(Message(None, Some(<<ToolCall("", "Bash", a),
                                                       ToolCall("", "Read", b)>>))),
                            "tool_calls")>>,
                   Some(Usage(Some(3), Some(5)))) :
            a \in Arguments, b \in Arguments}

\* Exceptions litellm.acompletion can raise: whether the fault is an
\* authentication (401) failure, and str(e).
Fault(auth, text) == [auth |-> auth, text |-> text]
Faults ==
    {Fault(TRUE, "litellm.AuthenticationError: invalid key sk-1"),
     Fault(TRUE, "Error code: 401 - key sk-1 rejected"),
     Fault(FALSE, "litellm.Timeout: request timed out"),
     Fault(FALSE, "Cannot connect to host override:4010")}

\* needle in haystack, for Python strings
Contains(haystack, needle) ==
    \E i \in 1 .. Len(haystack) - Len(needle) + 1 :
        SubSeq(haystack, i, i + Len(needle) - 1) = needle

\* ------------------------------------------------------------------------
\* proxy_messages: the steps of the handler
\* ------------------------------------------------------------------------

\* proxy.py:551
ProviderId(e) == IF e.api_provider.has THEN e.api_provider.v ELSE "claude"

\* proxy.py:552-554
KnownProvider(e) == ProviderId(e) \in DOMAIN API_PROVIDERS

ApiBase_Localhost(e) ==
    IF e.api_base_url # "" THEN e.api_base_url ELSE "http://localhost"

\* proxy.py:560
ApiBase(e) ==
    IF e.api_base_url # "" THEN e.api_base_url
    ELSE ProviderGet(API_PROVIDERS[ProviderId(e)], "base_url")

\* Variant: the configured model wins over the inbound one.
ModelOf_ConfiguredFirst(e, b) ==
    IF e.api_model # "" THEN e.api_model
    ELSE IF b.model.has /\ b.model.v # "" THEN b.model.v
    ELSE ProviderGet(API_PROVIDERS[ProviderId(e)], "default_model")

\* proxy.py:562
ModelOf(e, b) ==
    IF b.model.has /\ b.model.v # "" THEN b.model.v
    ELSE IF e.api_model # "" THEN e.api_model
    ELSE ProviderGet(API_PROVIDERS[ProviderId(e)], "default_model")

\* proxy.py:563
StreamOf(b) == IF b.stream.has THEN b.stream.v ELSE FALSE

\* bool(x) of a tagged value
Truthy(x) ==
    CASE x.kind = "str" -> x.s # ""
      [] x.kind = "list" -> x.items # <<>>
      [] x.kind = "int" -> x.n # 0
      [] OTHER -> TRUE

SystemMessage_Replace(b) ==
    LET system_text == IF b.system.has /\ Truthy(b.system.v)
                       THEN _translate_system_prompt(b.system.v) ELSE ""
    IN  [role |-> "system",
         content |-> IF system_text = "" THEN _COMPAT_PREAMBLE ELSE system_text]

\* proxy.py:576-578; "if system" is false for "", [] and an absent key.
SystemMessage(b) ==
    LET system_text == IF b.system.has /\ Truthy(b.system.v)
                       THEN _translate_system_prompt(b.system.v) ELSE ""
    IN  [role |-> "system", content |-> _COMPAT_PREAMBLE \o system_text]

ClampTemperature_Always(temperature, oai_tools) ==
    IF temperature > TemperatureCap THEN TemperatureCap ELSE temperature

\* proxy.py:590-594
ClampTemperature(temperature, oai_tools) ==
    IF oai_tools.has /\ temperature > TemperatureCap THEN TemperatureCap
    ELSE temperature

ToolChoiceKwarg_WithoutTools(tool_choice, oai_tools) ==
    IF tool_choice.has THEN tool_choice ELSE Some(Str("auto"))

\* The tool_choice entry of call_kwargs, proxy.py:613-617.
ToolChoiceKwarg(tool_choice, oai_tools) ==
    IF tool_choice.has /\ oai_tools.has THEN tool_choice
    ELSE IF oai_tools.has /\ ~tool_choice.has THEN Some(Str("auto"))
    ELSE Missing

\* call_kwargs, proxy.py:571-617; a key the code may leave out is Missing.
BuildCallKwargs(e, b) ==
    LET oai_tools == _translate_tools_to_openai(b.tools)
        tool_choice == _translate_tool_choice(b.tool_choice)
    IN  [model |-> "openai/" \o ModelOf(e, b),
         messages |-> <<SystemMessage(b)>>
             \o _translate_messages_to_openai(
                    IF b.messages.has THEN b.messages.v ELSE <<>>),
         max_tokens |-> IF b.max_tokens.has THEN b.max_tokens.v ELSE DefaultMaxTokens,
         temperature |-> ClampTemperature(
             IF b.temperature.has THEN b.temperature.v ELSE DefaultTemperature,
             oai_tools),
         api_base |-> ApiBase(e),
         api_key |-> e.api_auth_token,
         stream |-> StreamOf(b),
         top_p |-> b.top_p,
         tools |-> oai_tools,
         tool_choice |-> ToolChoiceKwarg(tool_choice, oai_tools)]

ErrorReply(status, type, message) ==
    [status |-> status, kind |-> "error", type |-> type, message |-> message]

\* proxy.py:631-633
ErrorMsg(e, fault) ==
    IF Contains(fault.text, "AuthenticationError") \/ Contains(fault.text, "401")
    THEN "Authentication failed with " \o ProviderId(e) \o ". Check your API key."
    ELSE fault.text

\* State before a request arrives: the settings are whatever the registry
\* holds, the streaming generator is not running.
HInit ==
    /\ pc = "off"
    /\ consumed = <<>>
    /\ events = <<>>
    /\ output_tokens = 0
    /\ block_index = 0
    /\ current_block_type = None
    /\ tool_call_accumulators = <<>>
    /\ uuid_count = 0
    /\ exit_path = ""
    /\ hpc = "entry"
    /\ env \in {Some(e) : e \in Envs}
    /\ body = Missing
    /\ call_kwargs = Missing
    /\ backend_calls = 0
    /\ outcome = Missing
    /\ reply = Missing
    /\ count_log = <<>>
    /\ generators = <<>>
    /\ scaffold = <<>>
    /\ manager = <<>>
    /\ tracker = <<>>

\* proxy.py:534-538
LitellmMissing ==
    /\ hpc = "entry"
    /\ ~env.v.litellm
    /\ hpc' = "replied"
    /\ reply' = Some(ErrorReply(501, "not_implemented",
                    "litellm is not installed. Run: pip install litellm"))
    /\ UNCHANGED <<env, body, call_kwargs, backend_calls, outcome>>
    /\ UNCHANGED sse_vars
    /\ UNCHANGED generators
    /\ UNCHANGED others
    /\ UNCHANGED count_log

\* proxy.py:541-547: request.json() raises.
BodyInvalid ==
    /\ hpc = "entry"
    /\ env.v.litellm
    /\ hpc' = "replied"
    /\ reply' = Some(ErrorReply(400, "invalid_request", "Invalid JSON body"))
    /\ UNCHANGED <<env, body, call_kwargs, backend_calls, outcome>>
    /\ UNCHANGED sse_vars
    /\ UNCHANGED generators
    /\ UNCHANGED others
    /\ UNCHANGED count_log

\* proxy.py:541-626: the body parses; the provider and base URL are
\* resolved, call_kwargs built and litellm.acompletion entered.
ReceiveBody ==
    /\ hpc = "entry"
    /\ env.v.litellm
    /\ \E b \in Bodies :
        /\ body' = Some(b)
        /\ IF ~KnownProvider(env.v)
           THEN /\ hpc' = "replied"
                /\ reply' = Some(ErrorReply(500, "configuration_error",
                                "Unknown provider: " \o ProviderId(env.v)))
                /\ UNCHANGED <<call_kwargs, backend_calls>>
           ELSE IF ApiBase(env.v) = ""
           THEN /\ hpc' = "replied"
                /\ reply' = Some(ErrorReply(500, "configuration_error",
                                "No API base URL configured for provider"))
                /\ UNCHANGED <<call_kwargs, backend_calls>>
           ELSE /\ hpc' = "awaiting"
                /\ call_kwargs' = Some(BuildCallKwargs(env.v, b))
                /\ backend_calls' = backend_calls + 1
                /\ UNCHANGED reply
    /\ UNCHANGED <<env, outcome>>
    /\ UNCHANGED sse_vars
    /\ UNCHANGED generators
    /\ UNCHANGED others
    /\ UNCHANGED count_log

\* Variant: for a streaming request the 200 event-stream reply is committed
\* before the backend call is known to have succeeded.
BackendRaises_AfterCommit ==
    /\ hpc = "awaiting"
    /\ \E f \in Faults :
        /\ outcome' = Some([raised |-> TRUE, fault |-> f])
        /\ reply' = IF call_kwargs.v.stream
                    THEN Some([status |-> 200, kind |-> "stream",
                               model |-> ModelOf(env.v, body.v)])
                    ELSE Some(ErrorReply(502, "proxy_error", ErrorMsg(env.v, f)))
    /\ hpc' = "replied"
    /\ UNCHANGED <<env, body, call_kwargs, backend_calls>>
    /\ UNCHANGED sse_vars
    /\ UNCHANGED generators
    /\ UNCHANGED others
    /\ UNCHANGED count_log

\* proxy.py:626-637: litellm.acompletion raises.
BackendRaises ==
    /\ hpc = "awaiting"
    /\ \E f \in Faults :
        /\ outcome' = Some([raised |-> TRUE, fault |-> f])
        /\ reply' = Some(ErrorReply(502, "proxy_error", ErrorMsg(env.v, f)))
    /\ hpc' = "replied"
    /\ UNCHANGED <<env, body, call_kwargs, backend_calls>>
    /\ UNCHANGED sse_vars
    /\ UNCHANGED generators
    /\ UNCHANGED others
    /\ UNCHANGED count_log

\* proxy.py:639-649: the call returned a chunk iterator; the reply is a
\* streaming response around _stream_anthropic_sse(response, model).
BackendReturnsStream ==
    /\ hpc = "awaiting"
    /\ call_kwargs.v.stream
    /\ outcome' = Some([raised |-> FALSE, stream |-> TRUE])
    /\ reply' = Some([status |-> 200, kind |-> "stream",
                      model |-> ModelOf(env.v, body.v)])
    /\ hpc' = "replied"
    /\ UNCHANGED <<env, body, call_kwargs, backend_calls>>
    /\ UNCHANGED sse_vars
    /\ UNCHANGED generators
    /\ UNCHANGED others
    /\ UNCHANGED count_log

\* proxy.py:650-662: the call returned a completion; an exception of the
\* builder leaves the handler unhandled.
BackendReturns ==
    /\ hpc = "awaiting"
    /\ ~call_kwargs.v.stream
    /\ \E r \in Responses :
        LET built == _build_anthropic_response(r, ModelOf(env.v, body.v))
        IN  /\ outcome' = Some([raised |-> FALSE, stream |-> FALSE, response |-> r])
            /\ reply' = IF built.raised
                        THEN Some([status |-> 500, kind |-> "unhandled",
                                   error |-> built.error])
                        ELSE Some([status |-> 200, kind |-> "json",
                                   content |-> built])
    /\ hpc' = "replied"
    /\ UNCHANGED <<env, body, call_kwargs, backend_calls>>
    /\ UNCHANGED sse_vars
    /\ UNCHANGED generators
    /\ UNCHANGED others
    /\ UNCHANGED count_log

\* proxy.py:640-648, 351-365: the streaming response starts to iterate the
\* generator, which emits its opening events with the resolved model.
ResponseStarts ==
    /\ hpc = "replied"
    /\ reply.v.kind = "stream"
    /\ pc = "off"
    /\ pc' = "stream"
    /\ events' = <<[MessageStart EXCEPT !.model = reply.v.model], Ping>>
    /\ UNCHANGED <<consumed, output_tokens, block_index, current_block_type,
                   tool_call_accumulators, uuid_count, exit_path>>
    /\ UNCHANGED hvars
    /\ UNCHANGED generators
    /\ UNCHANGED others
    /\ UNCHANGED count_log

HNext ==
    \/ LitellmMissing
    \/ BodyInvalid
    \/ ReceiveBody
    \/ BackendRaises
    \/ BackendReturnsStream
    \/ BackendReturns
    \/ ResponseStarts

SpecProxy == HInit /\ [][HNext]_vars

\* ------------------------------------------------------------------------
\* Claims about the route handler and the converters
\* ------------------------------------------------------------------------

Replied == hpc = "replied" /\ reply.has
RepliedJson == Replied /\ reply.v.kind = "json"
Called == call_kwargs.has

\* finish_reason handed to _translate_finish_reason by the builder
BackendFinishReason ==
    IF outcome.v.response.choices = <<>> THEN None
    ELSE outcome.v.response.choices[1].finish_reason

\* C13: the finish-reason table is total over stop, length, tool_calls,
\* content_filter, "", None and unknown values; the stop_reason of a built
\* response is end_turn, max_tokens or tool_use as the table says, and an
\* unknown backend reason is never passed through.
C13_FinishReasonTable ==
    RepliedJson =>
        LET reason == BackendFinishReason
            stop_reason == reply.v.content.stop_reason
        IN  /\ stop_reason \in {"end_turn", "max_tokens", "tool_use"}
            /\ reason = "stop" => stop_reason = "end_turn"
            /\ reason = "length" => stop_reason = "max_tokens"
            /\ reason = "tool_calls" => stop_reason = "tool_use"
            /\ reason = "content_filter" => stop_reason = "end_turn"
            /\ reason \notin {"stop", "length", "tool_calls", "content_filter"}
                    => stop_reason = "end_turn"

C13_Witness ==
    /\ RepliedJson
    /\ BackendFinishReason = "eos"
    /\ reply.v.content.stop_reason = "end_turn"

\* The inbound request names at least one tool.
InboundTools == body.v.tools.has /\ body.v.tools.v # <<>>

Min(a, b) == IF a < b THEN a ELSE b

\* C14: the temperature of the backend request is min(inbound, 0.6) when
\* the request carries a non-empty tool list and the inbound temperature
\* itself when tools are absent or empty (temperatures in hundredths).
C14_TemperatureClamp ==
    (Called /\ body.v.temperature.has) =>
        LET inbound == body.v.temperature.v
            sent == call_kwargs.v.temperature
        IN  /\ InboundTools => sent = Min(inbound, 60)
            /\ ~InboundTools => sent = inbound
            /\ (InboundTools /\ inbound = 90) => sent = 60
            /\ (InboundTools /\ inbound = 40) => sent = 40
            /\ (~InboundTools /\ inbound = 90) => sent = 90

C14_Witness ==
    /\ Called
    /\ InboundTools
    /\ body.v.temperature = Some(90)
    /\ call_kwargs.v.temperature = 60

\* C15: tool_choice is sent iff the inbound tool list is present and
\* non-empty; it is then the translated inbound choice, or "auto" when the
\* request gave none or one that translates to unset; the tools key is sent
\* only with a non-empty translated list.
C15_ToolChoiceWithTools ==
    Called =>
        LET sent == call_kwargs.v.tool_choice
            inbound == body.v.tool_choice
            translated == _translate_tool_choice(inbound)
        IN  /\ sent.has <=> InboundTools
            /\ call_kwargs.v.tools.has <=> InboundTools
            /\ call_kwargs.v.tools.has =>
                    Len(call_kwargs.v.tools.v) = Len(body.v.tools.v)
            /\ (sent.has /\ translated.has) => sent = translated
            /\ (sent.has /\ ~translated.has) => sent = Some(Str("auto"))
            /\ (sent.has /\ inbound = Some([kind |-> "dict", type |-> "any"]))
                    => sent = Some(Str("required"))
            /\ (sent.has /\ inbound = Some([kind |-> "dict", type |-> "tool", name |-> "Bash"]))
                    => sent = Some([kind |-> "dict", type |-> "function",
                                    function |-> [name |-> "Bash"]])
            /\ (sent.has /\ inbound \in {Missing, Some([kind |-> "dict", type |-> "none"]),
                                         Some([kind |-> "dict", type |-> "auto"])})
                    => sent = Some(Str("auto"))

C15_Witness ==
    /\ Called
    /\ InboundTools
    /\ body.v.tool_choice = Missing
    /\ call_kwargs.v.tool_choice = Some(Str("auto"))
    /\ Len(call_kwargs.v.tools.v) = 2

\* The system text a request supplies, written out for each prompt shape.
SuppliedSystemText(system) ==
    CASE system = Missing -> ""
      [] system = Some(Str("")) -> ""
      [] system = Some(Str("Be brief.")) -> "Be brief."
      [] system = Some(List(<<>>)) -> ""
      [] system = Some(List(<<TextBlock("Be brief."), TextBlock("Use tools.")>>))
            -> "Be brief.\nUse tools."
      [] system = Some(List(<<TextBlock("Be brief."), ImageBlock, Str("raw")>>))
            -> "Be brief.\nraw"
      [] system = Some(Num(7)) -> "7"

\* C16: in every request that reaches the backend the first message has
\* role system and its content is the compatibility preamble immediately
\* followed by the whole supplied system text ("" without a system prompt);
\* the translated conversation messages follow it in inbound order.
C16_PreambleThenSystemText ==
    Called =>
        LET messages == call_kwargs.v.messages
            text == SuppliedSystemText(body.v.system)
            inbound == IF body.v.messages.has THEN body.v.messages.v ELSE <<>>
        IN  /\ Len(messages) >= 1
            /\ messages[1].role = "system"
            /\ messages[1].content = _COMPAT_PREAMBLE \o text
            /\ SubSeq(messages[1].content, 1, Len(_COMPAT_PREAMBLE)) = _COMPAT_PREAMBLE
            /\ Len(messages[1].content) = Len(_COMPAT_PREAMBLE) + Len(text)
            /\ SubSeq(messages, 2, Len(messages)) = _translate_messages_to_openai(inbound)
            /\ inbound = <<Msg(Some("user"), Some(List(<<TextBlock("see"), ToolResult("T1", Str("ok"))>>))),
                           Msg(Some("assistant"), Some(Str("done")))>>
                  => SubSeq(messages, 2, Len(messages))
                        = <<[role |-> "user", content |-> "see"],
                            [role |-> "tool", tool_call_id |-> "T1", content |-> "ok"],
                            [role |-> "assistant", content |-> "done"]>>

C16_Witness ==
    /\ Called
    /\ body.v.system = Some(Str("Be brief."))
    /\ Len(call_kwargs.v.messages) = 4
    /\ call_kwargs.v.messages[1].content = _COMPAT_PREAMBLE \o "Be brief."
    /\ call_kwargs.v.messages[4].content = "done"

\* Positions of the dict blocks of one type in a block list.
BlocksOfType(blocks, type) ==
    {i \in DOMAIN blocks : blocks[i].kind = "dict" /\ blocks[i].type = type}

\* The j-th smallest member of a set of positions.
Nth(S, j) == CHOOSE i \in S : Cardinality({m \in S : m < i}) = j - 1

\* The request carries exactly one message, a block list with tool results,
\* which is not an assistant message with tool_use blocks.
OneToolResultMessage ==
    /\ Called
    /\ body.v.messages.has
    /\ Len(body.v.messages.v) = 1
    /\ body.v.messages.v[1].content.has
    /\ body.v.messages.v[1].content.v.kind = "list"
    /\ BlocksOfType(body.v.messages.v[1].content.v.items, "tool_result") # {}
    /\ ~(/\ body.v.messages.v[1].role = Some("assistant")
         /\ BlocksOfType(body.v.messages.v[1].content.v.items, "tool_use") # {})

\* C17: a message with k >= 1 tool_result blocks becomes k tool messages in
\* block order with the blocks' tool_use_ids, preceded by exactly one
\* role-preserving text message iff the message has a text block.
C17_ToolResultMessages ==
    OneToolResultMessage =>
        LET msg == body.v.messages.v[1]
            blocks == msg.content.v.items
            results == BlocksOfType(blocks, "tool_result")
            texts == BlocksOfType(blocks, "text")
            k == Cardinality(results)
            out == SubSeq(call_kwargs.v.messages, 2, Len(call_kwargs.v.messages))
            lead == IF texts = {} THEN 0 ELSE 1
        IN  /\ Len(out) = k + lead
            /\ \A j \in 1 .. k :
                /\ out[lead + j].role = "tool"
                /\ out[lead + j].tool_call_id = blocks[Nth(results, j)].tool_use_id
            /\ texts # {} =>
                /\ DOMAIN out[1] = {"role", "content"}
                /\ out[1].role = msg.role.v
                /\ out[1].content =
                      Join([j \in 1 .. Cardinality(texts) |-> blocks[Nth(texts, j)].text], "\n")

C17_Witness ==
    /\ OneToolResultMessage
    /\ body.v.messages.v[1].content.v.items =
          <<ToolResult("T1", Str("ok")), TextBlock("see"), ToolResult("T2", Str("no"))>>
    /\ SubSeq(call_kwargs.v.messages, 2, 4) =
          <<[role |-> "user", content |-> "see"],
            [role |-> "tool", tool_call_id |-> "T1", content |-> "ok"],
            [role |-> "tool", tool_call_id |-> "T2", content |-> "no"]>>

\* The settings name a provider of the table, and a base URL is set either
\* in the settings or for that provider.
ProviderResolved ==
    \/ ~env.v.api_provider.has
    \/ env.v.api_provider.v \in {"claude", "ionos"}
BaseUrlResolved ==
    \/ env.v.api_base_url # ""
    \/ env.v.api_provider = Some("ionos")

\* C18: the backend is called at most once per request, and only after the
\* body parsed and a provider and a non-empty base URL were resolved; an
\* unparseable body is answered 400, an unknown provider or unresolvable
\* base URL 500, both without a backend call; a backend call that raises is
\* answered 502.
C18_CallOnceAfterResolution ==
    /\ backend_calls <= 1
    /\ backend_calls = 1 <=> Called
    /\ Called => /\ env.v.litellm
                 /\ body.has
                 /\ ProviderResolved
                 /\ BaseUrlResolved
                 /\ call_kwargs.v.api_base # ""
    /\ (Replied /\ env.v.litellm /\ ~body.has) =>
            reply.v.status = 400 /\ backend_calls = 0
    /\ (Replied /\ body.has /\ ~(ProviderResolved /\ BaseUrlResolved)) =>
            reply.v.status = 500 /\ backend_calls = 0
    /\ (Replied /\ outcome.has /\ outcome.v.raised) =>
            reply.v.status = 502 /\ backend_calls = 1
    /\ (Replied /\ reply.v.status \in {400, 500, 501} /\ reply.v.kind = "error") =>
            backend_calls = 0

C18_Witness ==
    /\ Replied
    /\ backend_calls = 1
    /\ outcome.has /\ outcome.v.raised
    /\ ~call_kwargs.v.stream
    /\ reply.v.status = 502

\* The generic notice of proxy.py:633 for the configured provider.
AuthNotice ==
    "Authentication failed with "
        \o (IF env.v.api_provider.has THEN env.v.api_provider.v ELSE "claude")
        \o ". Check your API key."

\* C19: when the backend call fails, the message of the 502 reply is the
\* generic authentication notice exactly when the fault is an
\* authentication (401) failure, and the fault's own text for every other
\* fault.
C19_AuthNoticeExactlyForAuthFaults ==
    (Replied /\ outcome.has /\ outcome.v.raised) =>
        LET fault == outcome.v.fault
        IN  /\ reply.v.status = 502
            /\ fault.auth => reply.v.message = AuthNotice
            /\ ~fault.auth => reply.v.message = fault.text

\* The tool calls of the completion the backend returned.
BackendToolCalls ==
    LET r == outcome.v.response
    IN  IF r.choices # <<>> /\ r.choices[1].message.has
             /\ r.choices[1].message.v.tool_calls.has
        THEN r.choices[1].message.v.tool_calls.v
        ELSE <<>>

\* The argument value is not a JSON document: malformed or empty text, null
\* or no value at all.
Unparseable(arguments) ==
    arguments \in {ArgStr("{\"a\""), ArgStr(""), ArgNull, ArgAbsent}

\* C20: the response builder never fails because of a tool call's
\* arguments: the reply holds one tool_use block per backend tool call, in
\* order, and a call whose arguments cannot be parsed carries the empty
\* object as input.
C20_UnparseableArgumentsBecomeEmptyObject ==
    (Replied /\ outcome.has /\ ~outcome.v.raised /\ ~outcome.v.stream) =>
        /\ reply.v.kind = "json"
        /\ LET blocks == SelectSeq(reply.v.content.content,
                                   LAMBDA blk : blk.type = "tool_use")
               calls == BackendToolCalls
           IN  /\ Len(blocks) = Len(calls)
               /\ \A i \in DOMAIN calls :
                    /\ blocks[i].name = calls[i].function.name
                    /\ Unparseable(calls[i].function.arguments)
                          => blocks[i].input = JObj(<<>>)

\* ------------------------------------------------------------------------
\* proxy_count_tokens and its estimate
\* ------------------------------------------------------------------------

\* Number of count_tokens requests followed.
MaxCountRequests == 2

RECURSIVE SumSeq(_)
SumSeq(numbers) ==
    IF numbers = <<>> THEN 0 ELSE Head(numbers) + SumSeq(Tail(numbers))

\* block.get("text", "") and block.get("input", "") of a dict block
BlockText(block) == IF "text" \in DOMAIN block THEN block.text ELSE ""
BlockInput(block) ==
    IF "input" \in DOMAIN block /\ block.input.has THEN block.input.v
    ELSE JStr("")

\* Characters counted for the system value: proxy.py:77-83
SystemChars(b) ==
    IF ~b.system.has THEN Len("")
    ELSE CASE b.system.v.kind = "str" -> Len(b.system.v.s)
           [] b.system.v.kind = "list" ->
                 SumSeq([i \in DOMAIN b.system.v.items |->
                           IF b.system.v.items[i].kind = "dict"
                           THEN Len(BlockText(b.system.v.items[i])) ELSE 0])
           [] OTHER -> 0

\* Characters counted for one message: proxy.py:85-91
MessageChars(msg) ==
    IF ~msg.content.has THEN Len("")
    ELSE CASE msg.content.v.kind = "str" -> Len(msg.content.v.s)
           [] msg.content.v.kind = "list" ->
                 SumSeq([i \in DOMAIN msg.content.v.items |->
                           IF msg.content.v.items[i].kind = "dict"
                           THEN Len(BlockText(msg.content.v.items[i]))
                                + Len(JsonDumps(BlockInput(msg.content.v.items[i])))
                           ELSE 0])
           [] OTHER -> 0

\* proxy.py:74-92
_count_tokens_estimate(b) ==
    LET messages == IF b.messages.has THEN b.messages.v ELSE <<>>
        total_chars == SystemChars(b)
                       + SumSeq([i \in DOMAIN messages |-> MessageChars(messages[i])])
    IN  IF total_chars \div 4 > 1 THEN total_chars \div 4 ELSE 1

\* Bodies sent to count_tokens.
CountSystems ==
    {Missing, Some(Str("abcd")), Some(Str("abcdefgh")),
     Some(List(<<TextBlock("Be brief."), TextBlock("Use tools.")>>)),
     Some(List(<<Str("rawrawrawraw")>>)),
     Some(Num(7))}

CountMessageLists ==
    {Missing,
     Some(<<Msg(Some("user"), Some(Str("hi")))>>),
     Some(<<Msg(Some("user"), Missing)>>),
     Some(<<Msg(Some("user"), Some(List(<<TextBlock("abcdef")>>)))>>),
     Some(<<Msg(Some("user"), Some(List(<<TextBlock(""), TextBlock(""), Str("raw"),
                                          ImageBlock, ToolResult("T1", Str("ok"))>>)))>>),
     Some(<<Msg(Some("assistant"),
                Some(List(<<ToolUse(Some("T1"), "Bash",
                                    Some(JObj(<<JMember("a", JNum(1))>>)))>>))),
            Msg(Some("user"), Some(Str("abcdefgh")))>>)}

CountBodies ==
    {[BaseBody EXCEPT !.system = y, !.messages = m] :
        y \in CountSystems, m \in CountMessageLists}

\* Before the first count_tokens request.
CInit ==
    /\ pc = "off"
    /\ consumed = <<>>
    /\ events = <<>>
    /\ output_tokens = 0
    /\ block_index = 0
    /\ current_block_type = None
    /\ tool_call_accumulators = <<>>
    /\ uuid_count = 0
    /\ exit_path = ""
    /\ hpc = "off"
    /\ env = Missing
    /\ body = Missing
    /\ call_kwargs = Missing
    /\ backend_calls = 0
    /\ outcome = Missing
    /\ reply = Missing
    /\ count_log = <<>>
    /\ generators = <<>>
    /\ scaffold = <<>>
    /\ manager = <<>>
    /\ tracker = <<>>

\* proxy.py:670-673: request.json() raises.
CountBodyInvalid ==
    /\ Len(count_log) < MaxCountRequests
    /\ body' = Missing
    /\ reply' = Some(ErrorReply(400, "invalid_request", "Invalid JSON body"))
    /\ UNCHANGED count_log
    /\ UNCHANGED <<hpc, env, call_kwargs, backend_calls, outcome>>
    /\ UNCHANGED sse_vars
    /\ UNCHANGED generators
    /\ UNCHANGED others

\* proxy.py:670-675: the body parses and the estimate is returned.
CountTokens ==
    /\ Len(count_log) < MaxCountRequests
    /\ \E b \in CountBodies :
        /\ body' = Some(b)
        /\ reply' = Some([status |-> 200, kind |-> "json",
                          input_tokens |-> _count_tokens_estimate(b)])
        /\ count_log' = Append(count_log,
                               [body |-> b,
                                input_tokens |-> _count_tokens_estimate(b)])
    /\ UNCHANGED <<hpc, env, call_kwargs, backend_calls, outcome>>
    /\ UNCHANGED sse_vars
    /\ UNCHANGED generators
    /\ UNCHANGED others

CNext == CountBodyInvalid \/ CountTokens

SpecCount == CInit /\ [][CNext]_vars

\* ------------------------------------------------------------------------
\* Claims about the token estimate
\* ------------------------------------------------------------------------

\* Input characters of a body: the flattened system text, the string
\* contents, the text of text blocks and the serialized tool inputs.
InputChars(b) ==
    LET messages == IF b.messages.has THEN b.messages.v ELSE <<>>
        OfBlock(block) ==
            IF block.kind # "dict" THEN 0
            ELSE (IF block.type = "text" THEN Len(block.text) ELSE 0)
                 + (IF block.type = "tool_use" /\ block.input.has
                    THEN Len(JsonDumps(block.input.v)) ELSE 0)
        OfMessage(msg) ==
            IF ~msg.content.has THEN 0
            ELSE CASE msg.content.v.kind = "str" -> Len(msg.content.v.s)
                   [] msg.content.v.kind = "list" ->
                         SumSeq([i \in DOMAIN msg.content.v.items |->
                                    OfBlock(msg.content.v.items[i])])
                   [] OTHER -> 0
    IN  (IF b.system.has THEN Len(_translate_system_prompt(b.system.v)) ELSE 0)
        + SumSeq([i \in DOMAIN messages |-> OfMessage(messages[i])])

\* C21: the estimate is at least 1 for every body and non-decreasing in the
\* total input character count: of two bodies, the one with no more input
\* characters gets no larger an estimate; a body with only a system string
\* of length 4 gets 1.
C21_EstimateMonotone ==
    /\ \A i \in DOMAIN count_log : count_log[i].input_tokens >= 1
    /\ \A i \in DOMAIN count_log :
          (count_log[i].body.system = Some(Str("abcd")) /\ ~count_log[i].body.messages.has)
              => count_log[i].input_tokens = 1
    /\ \A i, j \in DOMAIN count_log :
          InputChars(count_log[i].body) <= InputChars(count_log[j].body)
              => count_log[i].input_tokens <= count_log[j].input_tokens

\* C30: the estimate is max(1, floor(T / 4)), T being the total input
\* character count: flattened system text, string contents, text blocks and
\* serialized tool inputs, and nothing for a block without tool input
\* beyond its text.
C30_EstimateIsQuarterOfInputChars ==
    \A i \in DOMAIN count_log :
        LET T == InputChars(count_log[i].body)
        IN  count_log[i].input_tokens = (IF T \div 4 > 1 THEN T \div 4 ELSE 1)

\* ------------------------------------------------------------------------
\* Further claims about the converters
\* ------------------------------------------------------------------------

\* The system text sent to the backend: what follows the preamble.
SentSystemText ==
    SubSeq(call_kwargs.v.messages[1].content, Len(_COMPAT_PREAMBLE) + 1,
           Len(call_kwargs.v.messages[1].content))

\* The system value is a list whose members are all text blocks.
ListOfTextBlocks(system) ==
    /\ system.has
    /\ system.v.kind = "list"
    /\ \A i \in DOMAIN system.v.items :
          system.v.items[i].kind = "dict" /\ system.v.items[i].type = "text"

\* C22: a system value that is a list of text blocks is translated to the
\* blocks' texts joined by one newline, in order; a string is returned as
\* it is; members that are neither text blocks nor plain strings add
\* nothing.
C22_SystemPromptJoin ==
    Called =>
        LET system == body.v.system
        IN  /\ ListOfTextBlocks(system) /\ system.v.items # <<>> =>
                  SentSystemText =
                      Join([i \in DOMAIN system.v.items |-> system.v.items[i].text], "\n")
            /\ system = Some(List(<<TextBlock("Be brief."), TextBlock("Use tools.")>>)) =>
                  SentSystemText = "Be brief." \o "\n" \o "Use tools."
            /\ (system.has /\ system.v.kind = "str") => SentSystemText = system.v.s
            /\ system = Some(List(<<TextBlock("Be brief."), ImageBlock, Str("raw")>>)) =>
                  SentSystemText = "Be brief." \o "\n" \o "raw"

C22_Witness ==
    /\ Called
    /\ body.v.system = Some(List(<<TextBlock("Be brief."), TextBlock("Use tools.")>>))
    /\ SentSystemText = "Be brief.\nUse tools."

\* ------------------------------------------------------------------------
\* Further claims about the streaming transcoder
\* ------------------------------------------------------------------------

RECURSIVE FragmentsOf(_, _)
\* The argument fragments received for backend index i, concatenated in
\* arrival order.
FragmentsOf(tcs, i) ==
    IF tcs = <<>> THEN <<>>
    ELSE (IF TcIdx(Head(tcs)) = i /\ CarriesArguments(Head(tcs))
          THEN Head(tcs).arguments ELSE <<>>) \o FragmentsOf(Tail(tcs), i)

RECURSIVE PartialJsonOf(_, _)
\* The partial_json values of the input deltas tagged with block index b,
\* concatenated in emission order.
PartialJsonOf(seq, b) ==
    IF seq = <<>> THEN <<>>
    ELSE (IF Head(seq).type = "input_json_delta" /\ Head(seq).index = b
          THEN Head(seq).partial_json ELSE <<>>) \o PartialJsonOf(Tail(seq), b)

\* C23: the argument string of the accumulator of backend index i is the
\* concatenation, in arrival order, of exactly the fragments received for
\* index i (fragments of another index never change it), and it equals the
\* concatenated partial_json of the input deltas tagged with that
\* accumulator's block index.
C23_ArgumentsPerIndex ==
    LET received == FlatToolCalls(consumed)
    IN  /\ DOMAIN tool_call_accumulators = {TcIdx(received[k]) : k \in DOMAIN received}
        /\ \A i \in DOMAIN tool_call_accumulators :
              /\ tool_call_accumulators[i].arguments = FragmentsOf(received, i)
              /\ PartialJsonOf(events, tool_call_accumulators[i].block_index)
                    = tool_call_accumulators[i].arguments

C23_Witness ==
    /\ DOMAIN tool_call_accumulators = {0, 1}
    /\ tool_call_accumulators[0].arguments = <<"{", "}">>
    /\ tool_call_accumulators[1].arguments = <<"{">>

\* Every accumulator with a name keeps that name in the next state.
NamesKept ==
    \A i \in DOMAIN tool_call_accumulators :
        tool_call_accumulators[i].name # ""
            => tool_call_accumulators'[i].name = tool_call_accumulators[i].name

\* C24: an accumulator adopts the name of a fragment only while its own
\* name is still empty: once it has a name, no later fragment on its index
\* that carries another name changes it.
C24_NameAdoptedOnlyWhileUnset == [][NamesKept]_vars

\* The input deltas emitted and the fragments with arguments received, both
\* in order.
InputDeltas == SelectSeq(events, LAMBDA e : e.type = "input_json_delta")
ArgumentFragments == SelectSeq(FlatToolCalls(consumed), CarriesArguments)

\* C25: every non-empty argument fragment produces exactly one
\* input_json_delta whose partial_json is that fragment and whose index is
\* the block index of the fragment's accumulator; a fragment without
\* arguments produces none; the content_block_start of an accumulator's
\* block precedes every input delta of that block.
C25_OneDeltaPerFragment ==
    /\ LET deltas == InputDeltas
           fragments == ArgumentFragments
       IN  /\ Len(deltas) = Len(fragments)
           /\ \A k \in DOMAIN deltas :
                 /\ deltas[k].partial_json = fragments[k].arguments
                 /\ deltas[k].index =
                       tool_call_accumulators[TcIdx(fragments[k])].block_index
    /\ \A i \in DOMAIN tool_call_accumulators :
          LET b == tool_call_accumulators[i].block_index
              starts == {p \in PositionsAt(events, "content_block_start", b) :
                            events[p].type = "tool_use"}
          IN  /\ Cardinality(starts) = 1
              /\ \A p \in starts :
                    \A q \in DOMAIN events :
                        (events[q].type = "input_json_delta" /\ events[q].index = b)
                            => p < q

C25_Witness ==
    /\ Len(InputDeltas) = 2
    /\ Len(consumed) = 2
    /\ Len(consumed[1].tool_calls) = 2
    /\ InputDeltas[1].partial_json = <<"{">>
    /\ InputDeltas[2].partial_json = <<"}">>
    /\ InputDeltas[1].index = InputDeltas[2].index

\* Positions of the text deltas among the events.
TextDeltaPositions == {p \in DOMAIN events : events[p].type = "text_delta"}

OutputTokensCountTextDeltas ==
    /\ output_tokens = Cardinality(TextDeltaPositions)
    /\ output_tokens = Cardinality({k \in DOMAIN consumed : CarriesText(consumed[k])})
    /\ \A p \in Positions(events, "message_delta") :
          events[p].output_tokens = Cardinality({q \in TextDeltaPositions : q < p})

\* C26: the output_tokens of a message_delta event is the number of text
\* deltas emitted before it, on the finish, fault and silent-end paths
\* alike; only chunks with text change the counter, and it never decreases.
C26_OutputTokensCountTextDeltas ==
    []OutputTokensCountTextDeltas /\ [][output_tokens' >= output_tokens]_vars

C26_Witness ==
    /\ Done
    /\ exit_path = "fault"
    /\ output_tokens = 2
    /\ Len(consumed) = 3
    /\ \E p \in Positions(events, "message_delta") : events[p].output_tokens = 2

\* C27: for a message with tool_result blocks, the role-preserving text
\* message is emitted only if the joined text parts are non-empty: with no
\* text block, or only text blocks of empty text, the tool messages come
\* first and alone.
C27_TextMessageOnlyIfNonEmpty ==
    OneToolResultMessage =>
        LET msg == body.v.messages.v[1]
            blocks == msg.content.v.items
            texts == BlocksOfType(blocks, "text")
            joined == Join([j \in 1 .. Cardinality(texts) |-> blocks[Nth(texts, j)].text], "\n")
            k == Cardinality(BlocksOfType(blocks, "tool_result"))
            out == SubSeq(call_kwargs.v.messages, 2, Len(call_kwargs.v.messages))
        IN  /\ joined = "" => Len(out) = k /\ out[1].role = "tool"
            /\ joined # "" => Len(out) = k + 1 /\ out[1].content = joined

\* The conversation messages of the request and of the backend request.
InboundMessages == IF body.v.messages.has THEN body.v.messages.v ELSE <<>>
SentMessages == SubSeq(call_kwargs.v.messages, 2, Len(call_kwargs.v.messages))

\* The message is an assistant message with tool_use blocks.
AssistantToolUse(msg) ==
    /\ msg.role = Some("assistant")
    /\ msg.content.has
    /\ msg.content.v.kind = "list"
    /\ BlocksOfType(msg.content.v.items, "tool_use") # {}

\* Number of ids drawn for the tool_use blocks of a message.
IdsDrawn(msg) ==
    IF msg.content.has /\ msg.content.v.kind = "list"
    THEN Cardinality({i \in BlocksOfType(msg.content.v.items, "tool_use") :
                        ~msg.content.v.items[i].id.has})
    ELSE 0

\* C28: an assistant message with m >= 1 tool_use blocks becomes exactly one
\* assistant message whose tool_calls has m entries in block order (id
\* passed through when given, name, serialized input) and whose content is
\* the newline-joined text, or null without a text block; the backend
\* messages are the per-message translations concatenated in inbound order,
\* at least one per inbound message.
C28_AssistantToolCalls ==
    Called =>
        /\ (Len(InboundMessages) = 1 /\ AssistantToolUse(InboundMessages[1])) =>
              LET blocks == InboundMessages[1].content.v.items
                  uses == BlocksOfType(blocks, "tool_use")
                  texts == BlocksOfType(blocks, "text")
                  m == Cardinality(uses)
              IN  /\ Len(SentMessages) = 1
                  /\ SentMessages[1].role = "assistant"
                  /\ Len(SentMessages[1].tool_calls) = m
                  /\ \A j \in 1 .. m :
                        LET call == SentMessages[1].tool_calls[j]
                            block == blocks[Nth(uses, j)]
                        IN  /\ block.id.has => call.id = block.id.v
                            /\ call.type = "function"
                            /\ call.function.name = block.name
                            /\ call.function.arguments =
                                  JsonDumps(IF block.input.has THEN block.input.v
                                            ELSE JObj(<<>>))
                  /\ SentMessages[1].content =
                        IF texts = {} THEN None
                        ELSE Join([j \in 1 .. Cardinality(texts) |->
                                      blocks[Nth(texts, j)].text], "\n")
        /\ Len(SentMessages) >= Len(InboundMessages)
        /\ Len(InboundMessages) = 2 =>
              SentMessages = TranslateMessage(InboundMessages[1], 0)
                  \o TranslateMessage(InboundMessages[2], IdsDrawn(InboundMessages[1]))
        /\ InboundMessages =
              <<Msg(Some("assistant"), Some(List(<<ToolUse(Missing, "Bash", Missing)>>))),
                Msg(Some("user"), Some(List(<<ToolResult("T1", Str("ok"))>>)))>>
            => /\ Len(SentMessages) = 2
               /\ SentMessages[1].role = "assistant"
               /\ SentMessages[1].tool_calls[1].function = [name |-> "Bash", arguments |-> "{}"]
               /\ SentMessages[2] = [role |-> "tool", tool_call_id |-> "T1", content |-> "ok"]

C28_Witness ==
    /\ Called
    /\ Len(InboundMessages) = 1
    /\ AssistantToolUse(InboundMessages[1])
    /\ Len(SentMessages) = 1
    /\ SentMessages[1].content = "run"
    /\ Len(SentMessages[1].tool_calls) = 2
    /\ SentMessages[1].tool_calls[2].function = [name |-> "Read", arguments |-> "{}"]

\* C29: the response builder uses only the first backend choice; without
\* any choice the content list is empty and stop_reason is end_turn; a text
\* block is emitted only for a non-empty message content and precedes all
\* tool_use blocks; a token count is 0 whenever the usage object or that
\* count is absent.
C29_FirstChoiceOnly ==
    RepliedJson =>
        LET r == outcome.v.response
            built == reply.v.content
            texts == {p \in DOMAIN built.content : built.content[p].type = "text"}
            tools == {p \in DOMAIN built.content : built.content[p].type = "tool_use"}
            has_text == /\ r.choices # <<>>
                        /\ r.choices[1].message.has
                        /\ r.choices[1].message.v.content \notin {None, ""}
        IN  /\ r.choices = <<>> =>
                  built.content = <<>> /\ built.stop_reason = "end_turn"
            /\ Cardinality(tools) = Len(BackendToolCalls)
            /\ has_text => /\ texts = {1}
                           /\ built.content[1].text = r.choices[1].message.v.content
            /\ ~has_text => texts = {}
            /\ Len(r.choices) = 2 =>
                  /\ built.stop_reason = "tool_use"
                  /\ \A p \in texts : built.content[p].text # "second"
            /\ ~r.usage.has =>
                  built.usage = [input_tokens |-> 0, output_tokens |-> 0]
            /\ (r.usage.has /\ ~r.usage.v.prompt_tokens.has) =>
                  built.usage = [input_tokens |-> 0, output_tokens |-> 5]
            /\ (r.usage.has /\ ~r.usage.v.completion_tokens.has) =>
                  built.usage = [input_tokens |-> 3, output_tokens |-> 0]
            /\ (r.usage.has /\ r.usage.v.prompt_tokens.has
                    /\ r.usage.v.completion_tokens.has) =>
                  built.usage = [input_tokens |-> 3, output_tokens |-> 5]

C29_Witness ==
    /\ RepliedJson
    /\ Len(outcome.v.response.choices) = 2
    /\ Len(reply.v.content.content) = 2
    /\ reply.v.content.content[1] = [type |-> "text", text |-> "Running"]
    /\ reply.v.content.content[2].type = "tool_use"
    /\ reply.v.content.stop_reason = "tool_use"

\* C31: the tool choice {type: auto} is translated to "auto", {type: any}
\* to "required", {type: tool, name} to the function choice of that name,
\* and an absent value, an unknown type and a value that is not an object
\* to unset; no other result occurs.
C31_ToolChoiceTable ==
    Called =>
        LET inbound == body.v.tool_choice
            translated == _translate_tool_choice(inbound)
        IN  /\ inbound = Some([kind |-> "dict", type |-> "auto"])
                  => translated = Some(Str("auto"))
            /\ inbound = Some([kind |-> "dict", type |-> "any"])
                  => translated = Some(Str("required"))
            /\ inbound = Some([kind |-> "dict", type |-> "tool", name |-> "Bash"])
                  => translated = Some([kind |-> "dict", type |-> "function",
                                        function |-> [name |-> "Bash"]])
            /\ inbound \in {Missing, Some([kind |-> "dict", type |-> "none"]),
                            Some(Str("auto"))}
                  => translated = Missing
            /\ translated \in {Missing, Some(Str("auto")), Some(Str("required")),
                               Some([kind |-> "dict", type |-> "function",
                                     function |-> [name |-> "Bash"]])}
            /\ (InboundTools /\ translated.has) => call_kwargs.v.tool_choice = translated

C31_Witness ==
    /\ Called
    /\ InboundTools
    /\ body.v.tool_choice = Some([kind |-> "dict", type |-> "tool", name |-> "Bash"])
    /\ call_kwargs.v.tool_choice =
          Some([kind |-> "dict", type |-> "function", function |-> [name |-> "Bash"]])

\* The model id the settings and the request resolve to.
ResolvedModel ==
    IF body.v.model.has /\ body.v.model.v # "" THEN body.v.model.v
    ELSE IF env.v.api_model # "" THEN env.v.api_model
    ELSE IF env.v.api_provider = Some("ionos") THEN "ionos-default"
    ELSE ""

\* C32: the model of the backend request is the inbound model id if the
\* request carries a non-empty one, else the configured model, else the
\* provider's default model, always prefixed with "openai/"; the model
\* echoed in the outbound response, and handed to the stream for
\* message_start, is the same id without the prefix.
C32_ModelResolution ==
    Called =>
        /\ call_kwargs.v.model = "openai/" \o ResolvedModel
        /\ RepliedJson => reply.v.content.model = ResolvedModel
        /\ (Replied /\ reply.v.kind = "stream") => reply.v.model = ResolvedModel

C32_Witness ==
    /\ RepliedJson
    /\ ~body.v.model.has
    /\ env.v.api_model = "cfg-model"
    /\ call_kwargs.v.model = "openai/cfg-model"
    /\ reply.v.content.model = "cfg-model"


\* C35: when the backend call itself raises, the handler replies 502 and
\* no SSE event is emitted, for streaming and non-streaming requests alike;
\* events are emitted only under a 200 event-stream reply, which exists only
\* after the backend call returned a stream.
C35_BackendFaultBeforeStream ==
    /\ (outcome.has /\ outcome.v.raised) =>
          /\ Replied
          /\ reply.v.status = 502
          /\ reply.v.kind = "error"
          /\ events = <<>>
          /\ pc = "off"
    /\ (Replied /\ reply.v.kind = "stream") =>
          /\ reply.v.status = 200
          /\ outcome.has /\ ~outcome.v.raised /\ outcome.v.stream
    /\ events # <<>> =>
          /\ Replied
          /\ reply.v.kind = "stream"
          /\ reply.v.status = 200

C35_Witness ==
    /\ Replied
    /\ call_kwargs.has /\ call_kwargs.v.stream
    /\ outcome.has /\ outcome.v.raised
    /\ reply.v.status = 502
    /\ events = <<>>

\* ------------------------------------------------------------------------
\* Several streaming calls in flight, and cancellation
\* ------------------------------------------------------------------------

CallNames == {"a", "b"}

\* Longest backend stream of one of the concurrent calls.
MaxCallChunks == 2

\* The backend chunks the concurrent calls draw from: a text delta, a tool
\* call with its first argument fragment, and a finishing chunk.
CallChunks ==
    {Chunk(TRUE, TRUE, "Hi", <<>>, ""),
     Chunk(TRUE, TRUE, "", <<TcNamed(0), TcArgs(0, <<"{">>)>>, ""),
     Chunk(TRUE, FALSE, "", <<>>, "stop")}

\* proxy.py:337-346: the locals a fresh invocation of the generator starts with.
InitialLocals ==
    [output_tokens |-> 0, block_index |-> 0, current_block_type |-> None,
     tool_call_accumulators |-> <<>>, uuid_count |-> 0, yielded |-> <<>>]

\* A generator object: its position, the chunks it has read, its locals
\* (yielded holds every event it has produced), how many of those events
\* the response writer has taken, and whether it was cancelled.
NewGenerator ==
    [pc |-> "start", consumed |-> <<>>, s |-> InitialLocals, sent |-> 0,
     exit_path |-> "", cancelled |-> FALSE]

Largest(S) == CHOOSE x \in S : \A y \in S : y <= x

\* Variant: block_index is one module-level counter that all calls advance.
LocalsOf_SharedBlockIndex(gs, c) ==
    [gs[c].s EXCEPT !.block_index =
        Largest({gs[d].s.block_index : d \in CallNames})]

\* The state the code of call c reads and writes: the locals of its own
\* generator frame (proxy.py:337-346 are assignments to local names).
LocalsOf(gs, c) == gs[c].s

\* The generator of call c is suspended at a yield, an event not yet taken.
AtYield(g) == g.sent < Len(g.s.yielded)

TInit ==
    /\ generators = [c \in CallNames |-> NewGenerator]
    /\ pc = "off"
    /\ consumed = <<>>
    /\ events = <<>>
    /\ output_tokens = 0
    /\ block_index = 0
    /\ current_block_type = None
    /\ tool_call_accumulators = <<>>
    /\ uuid_count = 0
    /\ exit_path = ""
    /\ hpc = "off"
    /\ env = Missing
    /\ body = Missing
    /\ call_kwargs = Missing
    /\ backend_calls = 0
    /\ outcome = Missing
    /\ reply = Missing
    /\ count_log = <<>>
    /\ scaffold = <<>>
    /\ manager = <<>>
    /\ tracker = <<>>

OnlyGenerators == UNCHANGED <<sse_vars, hvars, count_log, others>>

\* proxy.py:351-365: the generator runs to its opening yields.
CallStart(c) ==
    /\ generators[c].pc = "start"
    /\ generators' = [generators EXCEPT
          ![c].pc = "stream",
          ![c].s = Yield(Yield(LocalsOf(generators, c), MessageStart), Ping)]
    /\ OnlyGenerators

\* The response writer takes the event the generator is suspended on.
CallWrite(c) ==
    /\ generators[c].pc \in {"stream", "done"}
    /\ AtYield(generators[c])
    /\ generators' = [generators EXCEPT ![c].sent = @ + 1]
    /\ OnlyGenerators

\* proxy.py:368-492: the backend stream of call c delivers a chunk.
CallNextChunk(c) ==
    /\ generators[c].pc = "stream"
    /\ ~AtYield(generators[c])
    /\ Len(generators[c].consumed) < MaxCallChunks
    /\ \E chunk \in CallChunks :
          generators' = [generators EXCEPT
              ![c].consumed = Append(@, chunk),
              ![c].s = ProcessChunk(LocalsOf(generators, c), chunk),
              ![c].pc = IF Returns(chunk) THEN "done" ELSE "stream",
              ![c].exit_path = IF Returns(chunk) THEN "finish" ELSE ""]
    /\ OnlyGenerators

\* proxy.py:368, 494-520: reading the backend stream of call c raises.
CallRaises(c) ==
    /\ generators[c].pc = "stream"
    /\ ~AtYield(generators[c])
    /\ generators' = [generators EXCEPT
          ![c].s = GracefulClose(ErrorClose(LocalsOf(generators, c))),
          ![c].pc = "done",
          ![c].exit_path = "fault"]
    /\ OnlyGenerators

\* proxy.py:368, 509-520: the backend stream of call c is exhausted.
CallExhausted(c) ==
    /\ generators[c].pc = "stream"
    /\ ~AtYield(generators[c])
    /\ generators' = [generators EXCEPT
          ![c].s = GracefulClose(LocalsOf(generators, c)),
          ![c].pc = "done",
          ![c].exit_path = "silent"]
    /\ OnlyGenerators

\* The generator has not run to its end: it is not started, is suspended at
\* a yield, or awaits the next chunk.
Unfinished(g) == g.pc \in {"start", "stream"} \/ (g.pc = "done" /\ AtYield(g))

\* Variant: a cancellation is handled by the except branch like a fault of
\* the backend stream.
CallCancel_AsFault(c) ==
    /\ ~generators[c].cancelled
    /\ generators[c].pc = "stream"
    /\ generators' = [generators EXCEPT
          ![c].cancelled = TRUE,
          ![c].s = GracefulClose(ErrorClose(
                      [LocalsOf(generators, c) EXCEPT
                          !.yielded = SubSeq(@, 1, generators[c].sent)])),
          ![c].pc = "done",
          ![c].exit_path = "fault"]
    /\ OnlyGenerators

\* proxy.py:367, 494: the call is cancelled while its generator is
\* suspended (the client went away). CancelledError and GeneratorExit are
\* not subclasses of Exception, so the except branch does not run, and
\* there is no finally block: the frame is left at the suspension point.
CallCancel(c) ==
    /\ ~generators[c].cancelled
    /\ Unfinished(generators[c])
    /\ generators' = [generators EXCEPT
          ![c].cancelled = TRUE,
          ![c].pc = "closed"]
    /\ OnlyGenerators

TStart == \E c \in CallNames : CallStart(c)
TWrite == \E c \in CallNames : CallWrite(c)
TNextChunk == \E c \in CallNames : CallNextChunk(c)
TRaises == \E c \in CallNames : CallRaises(c)
TExhausted == \E c \in CallNames : CallExhausted(c)
TCancel == \E c \in CallNames : CallCancel(c)

TNext == TStart \/ TWrite \/ TNextChunk \/ TRaises \/ TExhausted \/ TCancel

SpecCalls == TInit /\ [][TNext]_vars


\* The events the response writer has taken from a generator.
Emitted(g) == SubSeq(g.s.yielded, 1, g.sent)

RECURSIVE RunChunks(_, _)
RunChunks(s, chunks) ==
    IF chunks = <<>> THEN s
    ELSE RunChunks(ProcessChunk(s, Head(chunks)), Tail(chunks))

\* The locals of a call that runs alone on the chunks g has read and leaves
\* the loop the way g did.
Alone(g) ==
    LET opened == Yield(Yield(InitialLocals, MessageStart), Ping)
        r == RunChunks(opened, g.consumed)
    IN  CASE g.exit_path = "fault" -> GracefulClose(ErrorClose(r))
          [] g.exit_path = "silent" -> GracefulClose(r)
          [] OTHER -> r

\* C33: however two concurrent streaming calls interleave at their
\* suspension points, each call's locals (block index, open block,
\* accumulators, token counter) and the events it has emitted are those of
\* the same call run alone on the chunks it has read.
C33_CallsDoNotInterfere ==
    \A c \in CallNames :
        LET g == generators[c]
            alone == Alone(g)
        IN  g.s.yielded # <<>> =>
                /\ g.s = alone
                /\ Emitted(g) = SubSeq(alone.yielded, 1, g.sent)

C33_Witness ==
    LET a == generators["a"]
        b == generators["b"]
    IN  /\ Len(a.consumed) = 2 /\ Len(b.consumed) = 2
        /\ a.consumed # b.consumed
        /\ a.s.block_index = 1 /\ b.s.block_index = 0
        /\ a.sent > 3 /\ b.sent > 3
        /\ ~a.cancelled /\ ~b.cancelled

\* C34: once a call is cancelled at a suspension point its generator emits
\* no further event and reads no further chunk, and the cancelling step
\* itself adds no event (no terminal events as for a backend fault) and
\* reads no chunk.
C34_CancelledCallIsSilent ==
    [][\A c \in CallNames :
          (generators[c].cancelled \/ generators'[c].cancelled) =>
              /\ Emitted(generators'[c]) = Emitted(generators[c])
              /\ generators'[c].consumed = generators[c].consumed
              /\ generators'[c].pc # "stream"
              /\ ~ (generators'[c].pc = "done" /\ AtYield(generators'[c]))]_vars

C34_Witness ==
    LET a == generators["a"]
        b == generators["b"]
    IN  /\ a.cancelled /\ Len(a.consumed) = 1 /\ a.sent = 2
        /\ a.s.current_block_type # None
        /\ ~b.cancelled /\ b.pc = "done" /\ ~AtYield(b)


\* ------------------------------------------------------------------------
\* ConnectionManager (websocket.py)
\* ------------------------------------------------------------------------

Sockets == {"w1", "w2"}
Projects == {"p", "q"}

\* Number of broadcast_to_project calls the model explores.
MaxBroadcasts == 2

\* dict operations on active_connections
DictSet(d, k, v) == [x \in DOMAIN d \cup {k} |-> IF x = k THEN v ELSE d[x]]
DictDel(d, k) == [x \in DOMAIN d \ {k} |-> d[x]]
DictGet(d, k, default) == IF k \in DOMAIN d THEN d[k] ELSE default

\* websocket.py:353-356, and no socket accepted, no broadcast under way.
NewManager ==
    [active_connections |-> <<>>,
     endpoint |-> [w \in Sockets |-> [at |-> "new", project |-> "p"]],
     bpc |-> "idle", project |-> "p", connections |-> {}, dead |-> {},
     broadcasts |-> 0, last_dead |-> {}]

\* State outside the manager is not touched by its operations.
OnlyManager ==
    UNCHANGED <<sse_vars, hvars, count_log, generators, scaffold, tracker>>

MInit ==
    /\ manager = NewManager
    /\ pc = "off"
    /\ consumed = <<>>
    /\ events = <<>>
    /\ output_tokens = 0
    /\ block_index = 0
    /\ current_block_type = None
    /\ tool_call_accumulators = <<>>
    /\ uuid_count = 0
    /\ exit_path = ""
    /\ hpc = "off"
    /\ env = Missing
    /\ body = Missing
    /\ call_kwargs = Missing
    /\ backend_calls = 0
    /\ outcome = Missing
    /\ reply = Missing
    /\ count_log = <<>>
    /\ generators = <<>>
    /\ scaffold = <<>>
    /\ tracker = <<>>

\* websocket.py:358-365: connect(websocket, project_name)
Connect(w, p) ==
    /\ manager.endpoint[w].at = "new"
    /\ manager' = [manager EXCEPT
          !.active_connections =
              DictSet(@, p, DictGet(@, p, {}) \cup {w}),
          !.endpoint[w] = [at |-> "open", project |-> p]]
    /\ OnlyManager

\* websocket.py:367-373: disconnect(websocket, project_name), called by the
\* endpoint that connected the socket.
Disconnect(w) ==
    LET p == manager.endpoint[w].project
        d == manager.active_connections
    IN  /\ manager.endpoint[w].at = "open"
        /\ manager' = [manager EXCEPT
              !.active_connections =
                  IF p \in DOMAIN d
                  THEN IF d[p] \ {w} = {}
                       THEN DictDel(d, p)
                       ELSE DictSet(d, p, d[p] \ {w})
                  ELSE d,
              !.endpoint[w].at = "closed"]
        /\ OnlyManager

\* websocket.py:375-380: broadcast_to_project takes its copy of the set.
BroadcastBegin(p) ==
    /\ manager.bpc = "idle"
    /\ manager.broadcasts < MaxBroadcasts
    /\ manager' = [manager EXCEPT
          !.bpc = "sending",
          !.project = p,
          !.connections = DictGet(manager.active_connections, p, {}),
          !.dead = {},
          !.broadcasts = @ + 1]
    /\ OnlyManager

\* websocket.py:382-384: send_json to the next connection succeeds.
SendOk ==
    /\ manager.bpc = "sending"
    /\ \E w \in manager.connections :
          manager' = [manager EXCEPT !.connections = @ \ {w}]
    /\ OnlyManager

\* websocket.py:385-386: send_json raises; the connection is noted as dead.
SendFails ==
    /\ manager.bpc = "sending"
    /\ \E w \in manager.connections :
          manager' = [manager EXCEPT !.connections = @ \ {w},
                                     !.dead = @ \cup {w}]
    /\ OnlyManager

\* websocket.py:388-393: the dead connections are discarded from the set of
\* the project; the call returns.
BroadcastEnd ==
    LET p == manager.project
        d == manager.active_connections
    IN  /\ manager.bpc = "sending"
        /\ manager.connections = {}
        /\ manager' = [manager EXCEPT
              !.active_connections =
                  IF manager.dead # {} /\ p \in DOMAIN d
                  THEN DictSet(d, p, d[p] \ manager.dead)
                  ELSE d,
              !.bpc = "idle",
              !.last_dead = manager.dead]
        /\ OnlyManager

MConnect == \E w \in Sockets, p \in Projects : Connect(w, p)
MDisconnect == \E w \in Sockets : Disconnect(w)
MBroadcastBegin == \E p \in Projects : BroadcastBegin(p)

MNext ==
    \/ MConnect
    \/ MDisconnect
    \/ MBroadcastBegin
    \/ SendOk
    \/ SendFails
    \/ BroadcastEnd

SpecManager == MInit /\ [][MNext]_vars

\* C36: whenever no broadcast is under way, no project of
\* active_connections is mapped to an empty set, and the connections whose
\* send failed in the last broadcast are not registered for its project.
C36_NoEmptyProjectSets ==
    manager.bpc = "idle" =>
        /\ \A p \in DOMAIN manager.active_connections :
              manager.active_connections[p] # {}
        /\ manager.last_dead
              \cap DictGet(manager.active_connections, manager.project, {}) = {}


\* ------------------------------------------------------------------------
\* AgentTracker (websocket.py)
\* ------------------------------------------------------------------------

\* Largest value of _next_agent_index the model explores.
MaxAgents == 2

\* websocket.py:56
TESTING_AGENT_KEY == -1

Features == {1, 2}
Tasks == {"t1", "t2"}

\* An output line, by what process_line recognises in it.
Line(kind, feature, content, ok) ==
    [kind |-> kind, feature |-> feature, content |-> content, ok |-> ok]

\* "[Feature #f] Reading x", "[Feature #f] hello", "Started coding agent for
\* feature #f", "Feature #f completed" / "Feature #f failed", "Started
\* testing agent", "Testing agent (PID n) completed", and a line of no
\* recognised form.
Lines ==
    {Line("output", 1, "Reading x", TRUE), Line("output", 2, "hello", TRUE)}
    \cup {Line("start", f, "", TRUE) : f \in Features}
    \cup {Line("complete", 1, "", TRUE), Line("complete", 2, "", FALSE)}
    \cup {Line("testing_start", TESTING_AGENT_KEY, "", TRUE),
          Line("testing_complete", TESTING_AGENT_KEY, "", TRUE),
          Line("other", 0, "", TRUE)}

\* websocket.py:122-130: state and thought found in the content.
Detected(content) ==
    IF content = "Reading x"
    THEN [state |-> "thinking", thought |-> "x"]
    ELSE [state |-> "working", thought |-> None]

Agent(agent_index, agent_type, state, last_thought) ==
    [agent_index |-> agent_index, agent_type |-> agent_type,
     state |-> state, last_thought |-> last_thought]

Update(agent_index, feature, state, thought) ==
    [agentIndex |-> agent_index, featureId |-> feature, state |-> state,
     thought |-> thought]

SomeUpdate(agent_index, feature, state, thought) ==
    Some(Update(agent_index, feature, state, thought))

\* Variant: the counter is read but not advanced.
Advance_Stuck(i) == i

\* websocket.py:109, 158, 205, 269: self._next_agent_index += 1
Advance(i) == i + 1

\* Does handling the line draw a new agent index?
Draws(tr, line) ==
    \/ line.kind \in {"start", "testing_start"}
    \/ line.kind = "output" /\ line.feature \notin DOMAIN tr.active_agents

\* The critical section that handles one line: the tracker afterwards and
\* the value process_line returns (None for no update).
\* output: websocket.py:105-150; start: 265-296; testing_start: 201-226;
\* complete: 298-323; testing_complete: 228-252.
Handled(tr, line) ==
    LET agents == tr.active_agents
        k == line.feature
        i == tr.next_agent_index
    IN  CASE line.kind = "output" ->
               LET tracked == IF k \in DOMAIN agents THEN agents
                              ELSE DictSet(agents, k,
                                       Agent(i, "coding", "thinking", None))
                   next == IF k \in DOMAIN agents THEN i ELSE Advance(i)
                   agent == tracked[k]
                   d == Detected(line.content)
               IN  IF d.state # agent.state \/ d.thought # agent.last_thought
                   THEN [agents |-> DictSet(tracked, k,
                            [agent EXCEPT
                               !.state = d.state,
                               !.last_thought = IF d.thought # None
                                                THEN d.thought ELSE @]),
                         next |-> next, handed |-> next # i,
                         result |-> SomeUpdate(agent.agent_index, k, d.state,
                                           d.thought)]
                   ELSE [agents |-> tracked, next |-> next,
                         handed |-> next # i, result |-> Missing]
          [] line.kind = "start" ->
               [agents |-> DictSet(agents, k,
                              Agent(i, "coding", "thinking", "Starting work...")),
                next |-> Advance(i), handed |-> TRUE,
                result |-> SomeUpdate(i, k, "thinking", "Starting work...")]
          [] line.kind = "testing_start" ->
               [agents |-> DictSet(agents, k,
                              Agent(i, "testing", "testing",
                                    "Starting regression tests...")),
                next |-> Advance(i), handed |-> TRUE,
                result |-> SomeUpdate(i, 0, "testing",
                                  "Starting regression tests...")]
          [] OTHER ->
               IF k \notin DOMAIN agents
               THEN [agents |-> agents, next |-> i, handed |-> FALSE,
                     result |-> Missing]
               ELSE [agents |-> DictDel(agents, k), next |-> i,
                     handed |-> FALSE,
                     result |-> SomeUpdate(agents[k].agent_index,
                                       IF line.kind = "complete" THEN k ELSE 0,
                                       IF line.ok THEN "success" ELSE "error",
                                       IF line.kind = "testing_complete"
                                       THEN "Tests passed!"
                                       ELSE IF line.ok
                                            THEN "Completed successfully!"
                                            ELSE "Failed to complete")]

\* websocket.py:58-63, no call under way. handed lists the agent indices
\* given out so far; last describes the call that returned last.
NewTracker ==
    [active_agents |-> <<>>, next_agent_index |-> 0,
     waiting |-> [t \in Tasks |-> Missing],
     handed |-> <<>>,
     last |-> Missing]

OnlyTracker ==
    UNCHANGED <<sse_vars, hvars, count_log, generators, scaffold, manager>>

AInit ==
    /\ tracker = NewTracker
    /\ pc = "off"
    /\ consumed = <<>>
    /\ events = <<>>
    /\ output_tokens = 0
    /\ block_index = 0
    /\ current_block_type = None
    /\ tool_call_accumulators = <<>>
    /\ uuid_count = 0
    /\ exit_path = ""
    /\ hpc = "off"
    /\ env = Missing
    /\ body = Missing
    /\ call_kwargs = Missing
    /\ backend_calls = 0
    /\ outcome = Missing
    /\ reply = Missing
    /\ count_log = <<>>
    /\ generators = <<>>
    /\ scaffold = <<>>
    /\ manager = <<>>

\* websocket.py:65-100: process_line is called by task t with a line of a
\* recognised form and reaches `async with self._lock`.
ProcessLine(t, line) ==
    /\ ~tracker.waiting[t].has
    /\ line.kind # "other"
    /\ tracker' = [tracker EXCEPT !.waiting[t] = Some(line)]
    /\ OnlyTracker

\* websocket.py:79-100: a line of no recognised form returns None at once.
ProcessOtherLine(t) ==
    /\ ~tracker.waiting[t].has
    /\ tracker' = [tracker EXCEPT
          !.last = Some([line |-> Line("other", 0, "", TRUE),
                         agents |-> tracker.active_agents,
                         next |-> tracker.next_agent_index,
                         result |-> Missing])]
    /\ OnlyTracker

\* Task t gets the lock and runs its critical section, which holds no
\* await, to the end.
HandleLine(t) ==
    /\ tracker.waiting[t].has
    /\ LET line == tracker.waiting[t].v
           h == Handled(tracker, line)
       IN  /\ Draws(tracker, line) => tracker.next_agent_index < MaxAgents
           /\ tracker' = [tracker EXCEPT
                 !.active_agents = h.agents,
                 !.next_agent_index = h.next,
                 !.waiting[t] = Missing,
                 !.handed = IF h.handed
                            THEN Append(@, h.agents[line.feature].agent_index)
                            ELSE @,
                 !.last = Some([line |-> line,
                                agents |-> tracker.active_agents,
                                next |-> tracker.next_agent_index,
                                result |-> h.result])]
    /\ OnlyTracker

AProcessLine == \E t \in Tasks, line \in Lines : ProcessLine(t, line)
AProcessOtherLine == \E t \in Tasks : ProcessOtherLine(t)
AHandleLine == \E t \in Tasks : HandleLine(t)

ANext == AProcessLine \/ AProcessOtherLine \/ AHandleLine

SpecTracker == AInit /\ [][ANext]_vars

IsCompletion(line) == line.kind \in {"complete", "testing_complete"}

MaxLines == 2

\* What the validation of a request finds: the template is known, the path
\* resolves, is not blocked, is an existing directory, npx is installed.
ScaffoldInputs ==
    [template_known : BOOLEAN, resolves : BOOLEAN, blocked : BOOLEAN,
     is_dir : BOOLEAN, npx : BOOLEAN]

\* scaffold.py:46-72: does the validation let the request through?
Valid(i) ==
    i.template_known /\ i.resolves /\ ~i.blocked /\ i.is_dir /\ i.npx

\* A fresh call of _stream_scaffold: the generator at its entry, no
\* subprocess, the pipe empty, the client connected.
NewScaffold(i) ==
    [input |-> i, at |-> "entry", process |-> "none", pipe |-> 0,
     written |-> 0, disconnected |-> FALSE, detected |-> FALSE,
     out |-> <<>>]

OnlyScaffold ==
    UNCHANGED <<sse_vars, hvars, count_log, generators, manager, tracker>>

SInit ==
    /\ \E i \in ScaffoldInputs : scaffold = NewScaffold(i)
    /\ pc = "off"
    /\ consumed = <<>>
    /\ events = <<>>
    /\ output_tokens = 0
    /\ block_index = 0
    /\ current_block_type = None
    /\ tool_call_accumulators = <<>>
    /\ uuid_count = 0
    /\ exit_path = ""
    /\ hpc = "off"
    /\ env = Missing
    /\ body = Missing
    /\ call_kwargs = Missing
    /\ backend_calls = 0
    /\ outcome = Missing
    /\ reply = Missing
    /\ count_log = <<>>
    /\ generators = <<>>
    /\ manager = <<>>
    /\ tracker = <<>>

Running == scaffold.process = "running"

\* scaffold.py:46-72: a validation fails; its error event is yielded and the
\* generator returns when resumed.
ValidationFails ==
    /\ scaffold.at = "entry"
    /\ ~Valid(scaffold.input)
    /\ scaffold' = [scaffold EXCEPT !.at = "validation_yield",
                                    !.out = Append(@, "error")]
    /\ OnlyScaffold

\* scaffold.py:80-95: the subprocess is started.
Spawn ==
    /\ scaffold.at = "entry"
    /\ Valid(scaffold.input)
    /\ scaffold' = [scaffold EXCEPT !.at = "reading", !.process = "running"]
    /\ OnlyScaffold

\* scaffold.py:91, 113-115: Popen raises; process is still None.
SpawnRaises ==
    /\ scaffold.at = "entry"
    /\ Valid(scaffold.input)
    /\ scaffold' = [scaffold EXCEPT !.at = "error_yield",
                                    !.out = Append(@, "error")]
    /\ OnlyScaffold

\* The subprocess writes a line to its stdout.
ProcessWrites ==
    /\ Running
    /\ scaffold.written < MaxLines
    /\ scaffold' = [scaffold EXCEPT !.pipe = @ + 1, !.written = @ + 1]
    /\ OnlyScaffold

\* The subprocess runs to its natural end.
ProcessExits ==
    /\ Running
    /\ scaffold' = [scaffold EXCEPT !.process = "exited"]
    /\ OnlyScaffold

\* The client closes the connection.
ClientDisconnects ==
    /\ ~scaffold.disconnected
    /\ scaffold.at # "finished"
    /\ scaffold' = [scaffold EXCEPT !.disconnected = TRUE]
    /\ OnlyScaffold

\* scaffold.py:96-103: readline returns a line; the client is still there
\* and the line is yielded.
ReadLine ==
    /\ scaffold.at = "reading"
    /\ scaffold.pipe > 0
    /\ ~scaffold.disconnected
    /\ scaffold' = [scaffold EXCEPT !.pipe = @ - 1, !.at = "output_yield",
                                    !.out = Append(@, "output")]
    /\ OnlyScaffold

\* scaffold.py:96-100, 107: readline returns a line, is_disconnected() is
\* true, and the break leaves the loop for process.wait().
DetectDisconnect ==
    /\ scaffold.at = "reading"
    /\ scaffold.pipe > 0
    /\ scaffold.disconnected
    /\ scaffold' = [scaffold EXCEPT !.pipe = @ - 1, !.at = "waiting",
                                    !.detected = TRUE]
    /\ OnlyScaffold

\* scaffold.py:96, 107: readline returns b"" at end of file; the loop ends.
ReadEof ==
    /\ scaffold.at = "reading"
    /\ scaffold.pipe = 0
    /\ ~Running
    /\ scaffold' = [scaffold EXCEPT !.at = "waiting"]
    /\ OnlyScaffold

\* scaffold.py:96-105, 113-115: a statement of the loop raises.
LoopRaises ==
    /\ scaffold.at = "reading"
    /\ scaffold' = [scaffold EXCEPT !.at = "error_yield",
                                    !.out = Append(@, "error")]
    /\ OnlyScaffold

\* scaffold.py:107-111: process.wait(), which has no timeout, returns once
\* the subprocess has ended; the complete event is yielded.
WaitReturns ==
    /\ scaffold.at = "waiting"
    /\ ~Running
    /\ scaffold' = [scaffold EXCEPT !.at = "complete_yield",
                                    !.out = Append(@, "complete")]
    /\ OnlyScaffold

\* The generator is resumed after a yield: scaffold.py:103-105 back to the
\* loop, 48/56/60/64/72 return, 111 and 115 on to the finally block.
Resume ==
    /\ scaffold.at \in {"output_yield", "validation_yield", "complete_yield",
                        "error_yield"}
    /\ scaffold' = [scaffold EXCEPT !.at =
          CASE scaffold.at = "output_yield" -> "reading"
            [] scaffold.at = "validation_yield" -> "finished"
            [] OTHER -> "finally"]
    /\ OnlyScaffold

\* The response is cancelled after the client went away and the generator
\* is closed at the yield it is suspended on: inside the try statement the
\* finally block runs (scaffold.py:117), outside it nothing does.
Closed ==
    /\ scaffold.disconnected
    /\ scaffold.at \in {"output_yield", "validation_yield", "complete_yield",
                        "error_yield"}
    /\ scaffold' = [scaffold EXCEPT !.at =
          IF scaffold.at = "validation_yield" THEN "finished" ELSE "finally"]
    /\ OnlyScaffold

\* scaffold.py:117-123: a subprocess that still runs is terminated, and
\* killed when it has not ended five seconds later.
Finally ==
    /\ scaffold.at = "finally"
    /\ \E ended \in BOOLEAN :
          scaffold' = [scaffold EXCEPT
              !.at = "finished",
              !.process = IF Running
                          THEN IF ended THEN "terminated" ELSE "killed"
                          ELSE @]
    /\ OnlyScaffold

SNext ==
    \/ ValidationFails
    \/ Spawn
    \/ SpawnRaises
    \/ ProcessWrites
    \/ ProcessExits
    \/ ClientDisconnects
    \/ ReadLine
    \/ DetectDisconnect
    \/ ReadEof
    \/ LoopRaises
    \/ WaitReturns
    \/ Resume
    \/ Closed
    \/ Finally

SpecScaffold == SInit /\ [][SNext]_vars

\* C38: once the stream has detected the disconnect while the subprocess
\* runs, it does not wait for the subprocess to end by itself, and no
\* subprocess runs once the generator has finished.
C38_DisconnectTerminatesProcess ==
    /\ (scaffold.detected /\ Running) => scaffold.at # "waiting"
    /\ scaffold.at = "finished" => ~Running

====
